---- MODULE Spec2Model ----
(***************************************************************************)
(* Model of the wkteam BFF event core: the FileDb write queue, the webhook *)
(* ingestion handlers, the automation queue and its workflows.             *)
(*                                                                         *)
(* One action is one run-to-completion segment of the event loop: the code *)
(* between two awaits of a handler, a workflow or a FileDb.save callback.  *)
(***************************************************************************)
EXTENDS Integers, Sequences, FiniteSets, TLC

VARIABLES
  now,        \* deps.nowMs()
  config,     \* wkteamCatalog loaded?, upstream base url + authorization set?
  dbState,    \* the in-memory DbV1 snapshot (app.ts `let dbState`)
  saves,      \* FileDb.writeQueue: one entry per save() call, in call order
  disk,       \* db.json and the temp file being written
  reqs,       \* HTTP requests, in arrival order, each with its position
  wfs,        \* automationQueue: one entry per enqueueAutomation() call
  sse,        \* sseClients and the events emitMessageCreated / emitConversationChanged wrote
  nextId,     \* source of makeId()'s unique suffix and of randomUUID()
  sessions,   \* the ids of the live login sessions (app.ts `sessions`)
  webhookRateState, \* client ip -> {windowStart, count} (app.ts `webhookRateState`)
  hook        \* the UI's useRemoteChats: its client, refs, EventSources and timers

vars == <<now, config, dbState, saves, disk, reqs, wfs, sse, nextId,
          sessions, webhookRateState, hook>>

\* The state of the server, which the UI's hook never touches.
server == <<now, config, dbState, saves, disk, reqs, wfs, sse, nextId,
            sessions, webhookRateState>>

(***************************************************************************)
(* The UI's remote-chats hook (useRemoteChats): its update channels.       *)
(***************************************************************************)
POLLING_INTERVAL_MS == 5000

\* EventSources the hook may create, and steps of the browser's clock, each
\* of half a polling interval.
MaxEs == 3
MaxQuanta == 5
Quantum == POLLING_INTERVAL_MS \div 2

\* The client prop with what connectionInfo read from storage when the
\* client changed: createBffClient accepts an empty baseUrl (same origin)
\* and no token (session cookie), loadApiToken returns null for no token.
NoClient == [set |-> FALSE, baseUrl |-> FALSE, token |-> FALSE]

Clients == {[set |-> TRUE, baseUrl |-> b, token |-> t] : b, t \in BOOLEAN}

\* Before the first render.  sseRef and pollingRef hold at most one id (the
\* empty set is null); es[i] is the readyState of the i-th EventSource and
\* timers[i] the i-th setInterval; polls are the refresh calls of timers.
NotMounted ==
  [phase |-> "initial", client |-> NoClient, cleanup |-> FALSE, ran |-> "",
   sseState |-> "idle", sseRef |-> {}, pollingRef |-> {},
   es |-> <<>>, timers |-> <<>>, clock |-> 0, polls |-> <<>>]

stopPolling(h) ==
  IF h.pollingRef # {}
  THEN [h EXCEPT !.timers = [i \in DOMAIN h.timers |->
                               IF i \in h.pollingRef
                               THEN [h.timers[i] EXCEPT !.cleared = TRUE]
                               ELSE h.timers[i]],
                 !.pollingRef = {}]
  ELSE h

stopSse(h) ==
  IF h.sseRef # {}
  THEN [h EXCEPT !.es = [i \in DOMAIN h.es |->
                           IF i \in h.sseRef THEN "closed" ELSE h.es[i]],
                 !.sseRef = {}]
  ELSE h

startPolling(h) ==
  LET stopped == stopPolling(h)
  IN [stopped EXCEPT !.timers = Append(@, [started |-> h.clock, cleared |-> FALSE]),
                     !.pollingRef = {Len(stopped.timers) + 1},
                     !.sseState = "error"]

connectSse(h) ==
  IF ~h.client.baseUrl \/ ~h.client.token \/ ~h.client.set THEN h
  ELSE IF h.sseRef # {} THEN h
  ELSE [h EXCEPT !.sseState = "connecting",
                 !.es = Append(@, "connecting"),
                 !.sseRef = {Len(h.es) + 1}]

\* The body of the effect, and the function it returns when a client is set.
Effect(h) ==
  IF ~h.client.set
  THEN [stopPolling(stopSse([h EXCEPT !.sseState = "idle"])) EXCEPT !.cleanup = FALSE]
  ELSE [connectSse(h) EXCEPT !.cleanup = TRUE]

Cleanup(h) == IF h.cleanup THEN stopPolling(stopSse(h)) ELSE h

OnError(h) == startPolling(stopSse([h EXCEPT !.sseState = "error"]))

OnOpen(h) == stopPolling([h EXCEPT !.sseState = "connected"])

\* A render with client c commits: the first one, or one after the client
\* or the selected conversation changed (refresh is a dependency of the
\* effect).  React runs the previous effect's cleanup, then the effect.
Render(c) ==
  /\ hook.phase \in {"initial", "mounted"}
  /\ Len(hook.es) < MaxEs
  /\ hook' = [Effect([Cleanup(hook) EXCEPT !.client = c, !.phase = "mounted"])
                EXCEPT !.ran = "effect"]
  /\ UNCHANGED server

Unmount ==
  /\ hook.phase = "mounted"
  /\ hook' = [Cleanup(hook) EXCEPT !.phase = "unmounted", !.ran = "cleanup"]
  /\ UNCHANGED server

\* The browser opens the connection of EventSource e and calls es.onopen.
EsOpen(e) ==
  /\ e \in DOMAIN hook.es /\ hook.es[e] = "connecting"
  /\ hook' = [OnOpen([hook EXCEPT !.es[e] = "open"]) EXCEPT !.ran = "onopen"]
  /\ UNCHANGED server

\* The connection of EventSource e fails or drops: the browser will retry
\* (readyState CONNECTING) or gives up (CLOSED), then calls es.onerror.
EsError(e) ==
  /\ e \in DOMAIN hook.es /\ hook.es[e] \in {"connecting", "open"}
  /\ \E readyState \in {"connecting", "closed"} :
       hook' = [OnError([hook EXCEPT !.es[e] = readyState]) EXCEPT !.ran = "onerror"]
  /\ UNCHANGED server

\* The times at which setInterval t has called its callback.
PollsOf(h, t) == {h.polls[i].at : i \in {j \in DOMAIN h.polls : h.polls[j].timer = t}}

Due(h, t) ==
  /\ ~h.timers[t].cleared
  /\ h.clock > h.timers[t].started
  /\ (h.clock - h.timers[t].started) % POLLING_INTERVAL_MS = 0
  /\ h.clock \notin PollsOf(h, t)

\* setInterval t fires: the callback calls refresh().
PollTick(t) ==
  /\ t \in DOMAIN hook.timers /\ Due(hook, t)
  /\ hook' = [hook EXCEPT !.polls = Append(@, [timer |-> t, at |-> hook.clock]),
                          !.ran = "interval"]
  /\ UNCHANGED server

\* Time passes in the browser, once the timers that are due have fired.
ClockAdvance ==
  /\ hook.clock < MaxQuanta * Quantum
  /\ \A t \in DOMAIN hook.timers : ~Due(hook, t)
  /\ hook' = [hook EXCEPT !.clock = @ + Quantum, !.ran = "clock"]
  /\ UNCHANGED server

(***************************************************************************)
(* Bounds of the model.                                                    *)
(***************************************************************************)
MaxReq == 2
MaxMsgId == 2
\* a request awaits one persist(), a workflow at most four
MaxSaves == 5 * MaxReq

(***************************************************************************)
(* Values.                                                                 *)
(***************************************************************************)
\* null: the id of no message (lastMessageId, outputMessageId)
NoId == 0

WId == "w1"
Peers == {"p1"}

\* messageType codes the callback handler tells apart (app.ts 1322-1329).
TextTypes == {"60001", "80001"}
ImageTypes == {"60002", "80002"}
FileTypes == {"60008", "80008"}

\* `wk:{wId}:{u|g}:{peerId}`; wk = FALSE stands for an id the regular
\* expression of parseWkConversationId does not match.
WkConversationId(wId, peerKind, peerId) ==
  [wk |-> TRUE, wId |-> wId, peerKind |-> peerKind, peerId |-> peerId]

parseWkConversationId(conversationId) ==
  IF conversationId.wk
    THEN [ok |-> TRUE, wId |-> conversationId.wId,
          peerKind |-> conversationId.peerKind, peerId |-> conversationId.peerId]
    ELSE [ok |-> FALSE, wId |-> "", peerKind |-> "", peerId |-> ""]

\* `wk:{wId}:{newMsgId ?? msgId ?? timestamp ?? now}`
CallbackDedupeKey(wId, newMsgIdRaw) == [wId |-> wId, id |-> newMsgIdRaw]

createEmptyDb(nowMs) ==
  [schemaVersion |-> 1,
   updatedAt |-> nowMs,
   automationEnabled |-> FALSE,
   conversations |-> <<>>,
   messages |-> <<>>,
   automationRuns |-> <<>>,
   webhookDedupeKeys |-> <<>>]

(***************************************************************************)
(* Sequence helpers.                                                       *)
(***************************************************************************)
Last(s) == s[Len(s)]

(***************************************************************************)
(* db.json: JSON.stringify, JSON.parse and dbSchemaV1.                     *)
(***************************************************************************)
RunTriggers == {"manual", "webhook"}
RunStatuses == {"success", "failed", "skipped"}
MessageKinds == {"text", "image", "file"}

\* A file: absent, a prefix of a document (a write that did not finish), or
\* a whole document.
AbsentFile == [exists |-> FALSE, complete |-> FALSE, json |-> createEmptyDb(0)]

\* writeFile's argument: JSON.stringify(next, null, 2), the whole document.
JsonStringify(next) == [exists |-> TRUE, complete |-> TRUE, json |-> next]

\* What a reader finds while writeFile is still writing `file`.
PartialFile(file) == [file EXCEPT !.complete = FALSE]

\* dbSchemaV1.safeParse(...).success
dbSchemaV1Accepts(json) ==
  /\ json.schemaVersion = 1
  /\ \A i \in DOMAIN json.conversations : json.conversations[i].unreadCount >= 0
  /\ \A i \in DOMAIN json.messages : json.messages[i].kind \in MessageKinds
  /\ \A i \in DOMAIN json.automationRuns :
        /\ json.automationRuns[i].trigger \in RunTriggers
        /\ json.automationRuns[i].status \in RunStatuses

\* dbSchemaV1.safeParse(...).data: z.object drops the keys it does not name
\* (a message's raw and rawTruncated).
dbSchemaV1Data(json) ==
  [json EXCEPT !.messages =
     [i \in DOMAIN json.messages |-> [json.messages[i] EXCEPT !.raw = ""]]]

\* loadOrInit without the schema check.
loadOrInit_Unvalidated(file, nowMs) ==
  IF file.exists /\ file.complete THEN file.json ELSE createEmptyDb(nowMs)

loadOrInit(file, nowMs) ==
  IF ~file.exists THEN createEmptyDb(nowMs)          \* readFile throws
  ELSE IF ~file.complete THEN createEmptyDb(nowMs)   \* JSON.parse throws
  ELSE IF ~dbSchemaV1Accepts(file.json) THEN createEmptyDb(nowMs)
  ELSE dbSchemaV1Data(file.json)

(***************************************************************************)
(* The in-memory snapshot and the objects still referenced by queued saves.*)
(* A store is [db, saves]: `db` is what `dbState` reads now; a queued save *)
(* holds the object `next` it was called with, and that object is          *)
(*   - the very object `dbState` names until the next persist() replaces   *)
(*     it (so a field assignment `dbState.x = ...` is seen through it),    *)
(*   - a shallow copy afterwards: it keeps sharing every array and map     *)
(*     that is changed in place (push, unshift, index assignment).         *)
(* `snap` is the object as a JSON.stringify would read it at this moment.  *)
(***************************************************************************)
Queued(job) == job.stage = "queued"

IsCurrentObject(st, i) == i = Len(st.saves)

\* dbState.messages.push(m)
PushMessage(st, m) ==
  [db |-> [st.db EXCEPT !.messages = Append(@, m)],
   saves |-> [i \in DOMAIN st.saves |->
     IF Queued(st.saves[i]) /\ st.saves[i].sharesMessages
       THEN [st.saves[i] EXCEPT !.snap.messages = Append(@, m)]
       ELSE st.saves[i]]]

\* dbState.messages = ms
AssignMessages(st, ms) ==
  [db |-> [st.db EXCEPT !.messages = ms],
   saves |-> [i \in DOMAIN st.saves |->
     IF ~Queued(st.saves[i]) THEN st.saves[i]
     ELSE IF IsCurrentObject(st, i)
       THEN [st.saves[i] EXCEPT !.snap.messages = ms, !.sharesMessages = TRUE]
       ELSE [st.saves[i] EXCEPT !.sharesMessages = FALSE]]]

\* dbState.conversations.unshift(c)
UnshiftConversation(st, c) ==
  [db |-> [st.db EXCEPT !.conversations = <<c>> \o @],
   saves |-> [i \in DOMAIN st.saves |->
     IF Queued(st.saves[i]) /\ st.saves[i].sharesConversations
       THEN [st.saves[i] EXCEPT !.snap.conversations = <<c>> \o @]
       ELSE st.saves[i]]]

\* dbState.conversations = cs
AssignConversations(st, cs) ==
  [db |-> [st.db EXCEPT !.conversations = cs],
   saves |-> [i \in DOMAIN st.saves |->
     IF ~Queued(st.saves[i]) THEN st.saves[i]
     ELSE IF IsCurrentObject(st, i)
       THEN [st.saves[i] EXCEPT !.snap.conversations = cs, !.sharesConversations = TRUE]
       ELSE [st.saves[i] EXCEPT !.sharesConversations = FALSE]]]

\* A log that keeps one run per runId: a run with the id of a stored run
\* takes its place.
PushRun_Upsert(st, run) ==
  LET Put(rs) == IF \E i \in DOMAIN rs : rs[i].id = run.id
                   THEN [i \in DOMAIN rs |-> IF rs[i].id = run.id THEN run ELSE rs[i]]
                   ELSE Append(rs, run)
  IN [db |-> [st.db EXCEPT !.automationRuns = Put(@)],
      saves |-> [i \in DOMAIN st.saves |->
        IF Queued(st.saves[i])
          THEN [st.saves[i] EXCEPT !.snap.automationRuns = Put(@)]
          ELSE st.saves[i]]]

\* dbState.automationRuns.push(run): the one array every object shares
PushRun(st, run) ==
  [db |-> [st.db EXCEPT !.automationRuns = Append(@, run)],
   saves |-> [i \in DOMAIN st.saves |->
     IF Queued(st.saves[i])
       THEN [st.saves[i] EXCEPT !.snap.automationRuns = Append(@, run)]
       ELSE st.saves[i]]]

\* SetDedupeKey for a handler that records the key only later.
SetDedupeKey_Skipped(st, key, id) == st

\* dbState.webhookDedupeKeys[key] = id: the one map every object shares
SetDedupeKey(st, key, id) ==
  [db |-> [st.db EXCEPT !.webhookDedupeKeys = (key :> id) @@ @],
   saves |-> [i \in DOMAIN st.saves |->
     IF Queued(st.saves[i])
       THEN [st.saves[i] EXCEPT !.snap.webhookDedupeKeys = (key :> id) @@ @]
       ELSE st.saves[i]]]

\* dbState.automationEnabled = b
AssignAutomationEnabled(st, b) ==
  [db |-> [st.db EXCEPT !.automationEnabled = b],
   saves |-> [i \in DOMAIN st.saves |->
     IF Queued(st.saves[i]) /\ IsCurrentObject(st, i)
       THEN [st.saves[i] EXCEPT !.snap.automationEnabled = b]
       ELSE st.saves[i]]]

(***************************************************************************)
(* FileDb.save and app.ts persist().                                       *)
(***************************************************************************)
\* SaveMayBegin for a save that does not chain on writeQueue.
SaveMayBegin_Unordered(queue, i) == queue[i].stage = "queued"

\* writeQueue.then(cb): cb of save i is called once the promise of save i-1
\* is fulfilled.
SaveMayBegin(queue, i) ==
  /\ queue[i].stage = "queued"
  /\ IF i = 1 THEN TRUE ELSE queue[i - 1].stage = "done"

\* writeQueue.then(cb) on a rejected promise: cb is never called and the new
\* promise is rejected as well.
ChainRejected(queue) == queue # <<>> /\ Last(queue).stage = "failed"

\* this.writeQueue = this.writeQueue.then(...)
FileDbSave(queue, next) ==
  Append(queue, [stage |-> IF ChainRejected(queue) THEN "failed" ELSE "queued",
                 snap |-> next,
                 sharesMessages |-> TRUE,
                 sharesConversations |-> TRUE])

\* persist(): dbState = { ...dbState, updatedAt: now }; await db.save(dbState)
Persist(st, nowMs) ==
  LET next == [st.db EXCEPT !.updatedAt = nowMs]
  IN [db |-> next, saves |-> FileDbSave(st.saves, next)]

\* The save the caller of persist() is now awaiting.
AwaitedSave(st) == Len(st.saves)

SaveSettled(i) == saves[i].stage \in {"done", "failed"}

Store == [db |-> dbState, saves |-> saves]

\* The callback passed to writeQueue.then starts: mkdir, then
\* writeFile(tmp, JSON.stringify(next)) is issued.
SaveBegin(i) ==
  /\ i \in DOMAIN saves
  /\ SaveMayBegin(saves, i)
  /\ saves' = [saves EXCEPT ![i].stage = "writing"]
  /\ disk' = [disk EXCEPT !.tmp = PartialFile(JsonStringify(saves[i].snap))]
  /\ UNCHANGED <<now, config, hook, dbState, reqs, wfs, sse, nextId, sessions, webhookRateState>>

\* writeFile resolves; rename(tmp, filePath) is issued.
SaveWritten(i) ==
  /\ i \in DOMAIN saves
  /\ saves[i].stage = "writing"
  /\ saves' = [saves EXCEPT ![i].stage = "renaming"]
  /\ disk' = [disk EXCEPT !.tmp.complete = TRUE]
  /\ UNCHANGED <<now, config, hook, dbState, reqs, wfs, sse, nextId, sessions, webhookRateState>>

\* rename resolves: the callback's promise is fulfilled.
SaveRenamed(i) ==
  /\ i \in DOMAIN saves
  /\ saves[i].stage = "renaming"
  /\ saves' = [saves EXCEPT ![i].stage = "done"]
  /\ disk' = [canon |-> disk.tmp, tmp |-> AbsentFile]
  /\ UNCHANGED <<now, config, hook, dbState, reqs, wfs, sse, nextId, sessions, webhookRateState>>

\* mkdir, writeFile or rename rejects (disk full, permissions): the promise
\* of save i is rejected, and with it the promise of every save chained
\* after it.
SaveFails(i) ==
  /\ i \in DOMAIN saves
  /\ saves[i].stage \in {"writing", "renaming"}
  /\ saves' = [j \in DOMAIN saves |->
       IF j >= i THEN [saves[j] EXCEPT !.stage = "failed"] ELSE saves[j]]
  /\ UNCHANGED <<now, config, hook, dbState, disk, reqs, wfs, sse, nextId, sessions, webhookRateState>>


(***************************************************************************)
(* Server-sent events.                                                     *)
(***************************************************************************)
\* sseClients is empty and nothing was written.  A stream is named by the
\* index of the GET /api/events request whose response it is; `broken`
\* holds the streams whose write throws.
NoStreams == [clients |-> {}, broken |-> {}, events |-> <<>>]

\* The emit loop with an empty catch: a stream that threw stays subscribed.
EmitEvent_KeepThrower(log, event, conversationId, messageId) ==
  [log EXCEPT !.events = Append(@, [event |-> event, conversationId |-> conversationId,
                                    messageId |-> messageId, action |-> "",
                                    to |-> log.clients \ log.broken,
                                    threw |-> log.clients \cap log.broken])]

\* emitMessageCreated / emitMessageUpdated / emitConversationChanged:
\* for (const client of sseClients) try { writeSse(client, ...) } catch
\* { sseClients.delete(client) }.  `to` is the set of streams the event was
\* written to, `threw` the set of streams whose write threw.
EmitEvent(log, event, conversationId, messageId) ==
  [log EXCEPT !.events = Append(@, [event |-> event, conversationId |-> conversationId,
                                    messageId |-> messageId, action |-> "",
                                    to |-> log.clients \ log.broken,
                                    threw |-> log.clients \cap log.broken]),
              !.clients = @ \ log.broken]

\* emitConversationChanged(conversationId, action)
EmitConversationChanged(log, conversationId, action) ==
  LET emitted == EmitEvent(log, "conversation.changed", conversationId, NoId)
  IN [emitted EXCEPT !.events[Len(emitted.events)].action = action]

(***************************************************************************)
(* The automation queue.                                                   *)
(***************************************************************************)
\* fn is called from enqueueAutomation itself instead of from a promise
\* callback.
EnqueueAutomation_Called(queue, flow, req, conversationId, inbound) ==
  Append(queue, [flow |-> flow, req |-> req, conversationId |-> conversationId,
                 inbound |-> inbound, pred |-> Len(queue), pc |-> "ai",
                 settled |-> "pending", runId |-> NoId, startedAt |-> 0,
                 out |-> NoId, reply |-> "", job |-> 0, calls |-> <<>>])

\* enqueueAutomation: run = automationQueue.then(fn);
\* automationQueue = run.catch(() => {}).  `pred` is the entry whose settling
\* fulfils the promise `automationQueue` named when fn was enqueued.
EnqueueAutomation(queue, flow, req, conversationId, inbound) ==
  Append(queue, [flow |-> flow,
                 req |-> req,
                 conversationId |-> conversationId,
                 inbound |-> inbound,
                 pred |-> Len(queue),
                 pc |-> "queued",
                 settled |-> "pending",
                 runId |-> NoId,
                 startedAt |-> 0,
                 out |-> NoId,
                 reply |-> "",
                 job |-> 0,
                 calls |-> <<>>])

\* WorkflowMayStart for automationQueue = run, without .catch(() => {}).
WorkflowMayStart_NoCatch(queue, w) ==
  /\ queue[w].pc = "queued"
  /\ IF queue[w].pred = 0 THEN TRUE ELSE queue[queue[w].pred].settled = "resolved"

\* automationQueue.then(fn): fn is called once automationQueue is fulfilled,
\* and run.catch(() => {}) is fulfilled whether run resolved or rejected.
WorkflowMayStart(queue, w) ==
  /\ queue[w].pc = "queued"
  /\ IF queue[w].pred = 0 THEN TRUE
       ELSE queue[queue[w].pred].settled \in {"resolved", "rejected"}

(***************************************************************************)
(* Requests.                                                               *)
(***************************************************************************)
\* ---- provider timestamps ----
\* A JavaScript number beyond the integers of the model checker is written
\* in decimal as two limbs and a fraction: the value is
\* (hi * Limb + lo) + frac / Limb, negated when `neg`.  NaN and Infinity
\* are numbers that are not finite; `undefined` is no number.
Limb == 1000 * 1000

Finite(neg, hi, lo, frac) ==
  [type |-> "number", kind |-> "finite", neg |-> neg, hi |-> hi, lo |-> lo, frac |-> frac,
   text |-> ""]

NotFinite(kind) == [Finite(FALSE, 0, 0, 0) EXCEPT !.kind = kind]

Undefined == [Finite(FALSE, 0, 0, 0) EXCEPT !.type = "undefined"]

StringOf(text) == [Finite(FALSE, 0, 0, 0) EXCEPT !.type = "string", !.text = text]

\* Number(str) for the strings the model sends.
NumberOf(text) ==
  CASE text = "" -> Finite(FALSE, 0, 0, 0)
    [] text = "1700000000" -> Finite(FALSE, 1700, 0, 0)
    [] text = "1700000000.25" -> Finite(FALSE, 1700, 0, 250000)
    [] text = "1700000000000" -> Finite(FALSE, 1700000, 0, 0)
    [] text = "Infinity" -> NotFinite("Infinity")
    [] OTHER -> NotFinite("NaN")

\* typeof tsRaw === 'string' ? Number(tsRaw) : tsRaw
TsNum(tsRaw) == IF tsRaw.type = "string" THEN NumberOf(tsRaw.text) ELSE tsRaw

\* normalizeEpochMs that takes every timestamp for milliseconds.
normalizeEpochMs_NoScale(ts, fallbackMs) ==
  IF ts.type # "number" \/ ts.kind # "finite" THEN fallbackMs
  ELSE [ts EXCEPT !.frac = 0]

\* if (typeof ts !== 'number' || !Number.isFinite(ts)) return fallbackMs
\* return ts < 1_000_000_000_000 ? Math.trunc(ts * 1000) : Math.trunc(ts)
normalizeEpochMs(ts, fallbackMs) ==
  IF ts.type # "number" \/ ts.kind # "finite" THEN fallbackMs
  ELSE IF ts.neg \/ ts.hi < Limb
    THEN LET low == ts.lo * 1000 + ts.frac \div 1000
         IN [ts EXCEPT !.hi = ts.hi * 1000 + low \div Limb,
                       !.lo = low % Limb,
                       !.frac = 0]
    ELSE [ts EXCEPT !.frac = 0]

NoInput ==
  [newMsgId |-> 0, timestamp |-> Undefined, peer |-> "", self |-> FALSE, messageType |-> "",
   content |-> "", conversationId |-> WkConversationId("", "", ""),
   dedupeKey |-> CallbackDedupeKey("", 0), enabled |-> FALSE,
   \* the client address and the three places of the webhook secret
   ip |-> "", header |-> "", query |-> "", path |-> "",
   \* the authorization header, the session cookie, ?token= and the password
   authorization |-> "", cookie |-> NoId, token |-> "", password |-> "",
   \* the message a hydrate request names
   messageId |-> NoId]

NoMessage ==
  [id |-> NoId, conversationId |-> WkConversationId("", "", ""), direction |-> "",
   source |-> "", sentAt |-> 0, kind |-> "", text |-> "", dataUrl |-> "", raw |-> ""]

NewRequest(route, input) ==
  [route |-> route, in |-> input, pc |-> "body", job |-> 0, msg |-> NoMessage,
   status |-> 0, deduped |-> FALSE, wf |-> 0, code |-> "", at |-> 0, idx |-> 0,
   calls |-> <<>>]

\* writeJson(res, status, ...) followed by return
Respond(r, status, deduped) ==
  [reqs EXCEPT ![r].pc = "done", ![r].status = status, ![r].deduped = deduped]

\* DedupeHit for a server that keeps no record of the keys it has seen.
DedupeHit_Never(db, key) == FALSE

\* dbState.webhookDedupeKeys[dedupeKey] is truthy
DedupeHit(db, key) ==
  key \in DOMAIN db.webhookDedupeKeys /\ db.webhookDedupeKeys[key] # NoId

\* conversations.map: the summary fields of the conversation of `m`
TouchConversations(cs, m, nowMs) ==
  [i \in DOMAIN cs |->
     IF cs[i].id # m.conversationId THEN cs[i]
     ELSE [cs[i] EXCEPT !.lastMessageId = m.id,
                        !.lastActivityAt = m.sentAt,
                        !.updatedAt = nowMs]]

HasConversation(db, id) == \E i \in DOMAIN db.conversations : db.conversations[i].id = id

NewConversation(id, peerId, nowMs) ==
  [id |-> id, peerId |-> peerId, pinned |-> FALSE, unreadCount |-> 0,
   lastMessageId |-> NoId, lastActivityAt |-> nowMs, updatedAt |-> nowMs]

\* EnsureConversation without the test for an existing conversation.
EnsureConversation_Always(st, id, peerId, nowMs) ==
  UnshiftConversation(st, NewConversation(id, peerId, nowMs))

\* if (!dbState.conversations.some(...)) dbState.conversations.unshift(c)
EnsureConversation(st, id, peerId, nowMs) ==
  IF HasConversation(st.db, id) THEN st
  ELSE UnshiftConversation(st, NewConversation(id, peerId, nowMs))

\* push the inbound message, record its dedupe key, update the summary,
\* call persist()
AppendInbound(st, key, m, nowMs) ==
  LET s1 == PushMessage(st, m)
      s2 == SetDedupeKey(s1, key, m.id)
      s3 == AssignConversations(s2, TouchConversations(s2.db.conversations, m, nowMs))
  IN Persist(s3, nowMs)


(***************************************************************************)
(* POST /webhooks/wkteam/callback                                          *)
(***************************************************************************)
CallbackInput(newMsgId, peer, self, messageType, content) ==
  [NoInput EXCEPT !.newMsgId = newMsgId, !.peer = peer, !.self = self,
                  !.messageType = messageType, !.content = content]

\* The deliveries the model draws: two text messages of a peer, one text
\* message the account itself sent, one message type the handler does not
\* know, an image with an http(s) url, and a file as a data: url or with
\* neither url.
CallbackInputs ==
  {CallbackInput(n, p, FALSE, "60001", "hello") : n \in 1..MaxMsgId, p \in Peers}
  \cup {CallbackInput(1, p, TRUE, "80001", "hello") : p \in Peers}
  \cup {CallbackInput(1, p, FALSE, "10000", "") : p \in Peers}
  \cup {CallbackInput(1, p, FALSE, "80002", "http") : p \in Peers}
  \cup {CallbackInput(1, p, FALSE, "60008", c) : p \in Peers, c \in {"data", ""}}

KindOfMessageType(messageType) ==
  IF messageType \in TextTypes THEN "text"
  ELSE IF messageType \in ImageTypes THEN "image"
  ELSE IF messageType \in FileTypes THEN "file"
  ELSE "text"

\* pickHttpUrl ?? data: content ?? base64 content ?? '': "data" is a data:
\* url within MAX_DATAURL_BYTES, "bigdata" one beyond it, "nodata" one whose
\* base64 text is empty.
MediaDataUrl(content) ==
  IF content \in {"http", "data", "bigdata", "nodata"} THEN content ELSE ""

InboundText(messageType, content) ==
  IF content # "" THEN content
  ELSE IF messageType \in TextTypes THEN "(empty)"
  ELSE "[unsupported messageType]"

\* The inbound message of a delivery (app.ts 1320-1392); only the
\* deliveries of StampInputs carry a timestamp, for the others sentAt is
\* normalizeEpochMs's fallback.
CallbackInbound(input, id, nowMs) ==
  LET kind == KindOfMessageType(input.messageType)
  IN [id |-> id,
      conversationId |-> WkConversationId(WId, "u", input.peer),
      direction |-> "inbound",
      source |-> "webhook",
      sentAt |-> normalizeEpochMs(TsNum(input.timestamp), nowMs),
      kind |-> kind,
      text |-> IF kind = "text" THEN InboundText(input.messageType, input.content) ELSE "",
      dataUrl |-> IF kind = "text" THEN "" ELSE MediaDataUrl(input.content),
      raw |-> "payload"]

\* ShouldAutomate without the data.self test.
ShouldAutomate_SelfToo(db, self, messageType) ==
  /\ db.automationEnabled
  /\ messageType \in TextTypes \cup ImageTypes \cup FileTypes

ShouldAutomate(db, self, messageType) ==
  /\ db.automationEnabled
  /\ ~self
  /\ messageType \in TextTypes \cup ImageTypes \cup FileTypes

\* The request arrives and the handler awaits readJsonBody.
CallbackArrive(input) ==
  /\ Len(reqs) < MaxReq
  /\ reqs' = Append(reqs, NewRequest("callback", input))
  /\ UNCHANGED <<now, config, hook, dbState, saves, disk, wfs, sse, nextId, sessions, webhookRateState>>

\* From the body to `await persist()`: the dedupe check, the message, the
\* conversation upsert, the dedupe key and the summary fields.
CallbackBody(r) ==
  /\ r \in DOMAIN reqs
  /\ reqs[r].route = "callback"
  /\ reqs[r].pc = "body"
  /\ LET input == reqs[r].in
         dedupeKey == CallbackDedupeKey(WId, input.newMsgId)
         inbound == CallbackInbound(input, nextId, now)
         st == AppendInbound(
                 EnsureConversation(Store, inbound.conversationId, input.peer, now),
                 dedupeKey, inbound, now)
     IN IF DedupeHit(dbState, dedupeKey)
          THEN /\ reqs' = Respond(r, 200, TRUE)
               /\ UNCHANGED <<dbState, saves, nextId>>
          ELSE /\ dbState' = st.db
               /\ saves' = st.saves
               /\ nextId' = nextId + 1
               /\ reqs' = [reqs EXCEPT ![r].pc = "persist",
                                       ![r].job = AwaitedSave(st),
                                       ![r].msg = inbound]
  /\ UNCHANGED <<now, config, hook, disk, wfs, sse, sessions, webhookRateState>>

\* After `await persist()`: a rejected save is thrown to the server's
\* top-level catch (500); otherwise message.created, the automation
\* decision, and the 200 response.
CallbackPersisted(r) ==
  /\ r \in DOMAIN reqs
  /\ reqs[r].route = "callback"
  /\ reqs[r].pc = "persist"
  /\ SaveSettled(reqs[r].job)
  /\ IF saves[reqs[r].job].stage = "failed"
       THEN /\ reqs' = Respond(r, 500, FALSE)
            /\ UNCHANGED <<wfs, sse>>
       ELSE /\ sse' = EmitEvent(sse, "message.created",
                                   reqs[r].msg.conversationId, reqs[r].msg.id)
            /\ IF ShouldAutomate(dbState, reqs[r].in.self, reqs[r].in.messageType)
                 THEN /\ wfs' = EnqueueAutomation(wfs, "callback", r,
                                   reqs[r].msg.conversationId, reqs[r].msg)
                      /\ reqs' = [Respond(r, 200, FALSE) EXCEPT ![r].wf = Len(wfs) + 1]
                 ELSE /\ wfs' = wfs
                      /\ reqs' = Respond(r, 200, FALSE)
  /\ UNCHANGED <<now, config, hook, dbState, saves, disk, nextId, sessions, webhookRateState>>


(***************************************************************************)
(* The automation workflows.                                               *)
(***************************************************************************)
\* What the completion endpoint does: a valid answer, no answer within the
\* time limit, a non-2xx answer, a JSON body that fails responseSchema, a
\* body that is not JSON.
AiOutcomes == {"ok", "timeout", "http", "bad", "malformed"}
\* What the upstream does: a 2xx answer, a non-2xx answer, no answer within
\* the time limit, a failed connection.
UpstreamOutcomes == {"ok", "http", "timeout", "network"}

\* A fetch that is issued again after it was issued.
Fetch_Twice(calls, op, arg) ==
  Append(Append(calls, [op |-> op, arg |-> arg, outcome |-> "pending"]),
         [op |-> op, arg |-> arg, outcome |-> "pending"])

\* deps.fetchImpl(url, ...): `calls` is the sequence of HTTP requests a
\* workflow or a handler has issued, each with the operation it names and
\* the content it carries, and what came back.
Fetch(calls, op, arg) == Append(calls, [op |-> op, arg |-> arg, outcome |-> "pending"])

\* The request issued last comes back.
CameBack(calls, outcome) == [calls EXCEPT ![Len(calls)].outcome = outcome]

\* The message of the Error chatCompletions throws (openaiClient.ts 56-73):
\* resp.json() rejects with a SyntaxError for a body that is not JSON, and
\* the catch passes an Error on as it is.
AiErrorMessage(outcome) ==
  CASE outcome = "timeout" -> "AI_TIMEOUT"
    [] outcome = "http" -> "AI_UPSTREAM_ERROR"
    [] outcome = "bad" -> "AI_BAD_RESPONSE"
    [] outcome = "malformed" -> "SyntaxError"
    [] OTHER -> "AI_UNKNOWN_ERROR"

\* /^data:[^;]+;base64,(.*)$/i: the base64 text of a data: url.
Base64Of(dataUrl) ==
  CASE dataUrl = "data" -> "base64"
    [] dataUrl = "bigdata" -> "bigbase64"
    [] OTHER -> ""

\* The message of the Error a rejected save throws out of persist().
SaveErrorMessage == "ENOSPC"

\* sendUpstreamJson's `code` for a call that did not come back ok.
SendUpstreamCode(outcome) ==
  CASE outcome = "timeout" -> "UPSTREAM_TIMEOUT"
    [] outcome = "network" -> "UPSTREAM_SEND_FAILED"
    [] OTHER -> "UPSTREAM_SEND_FAILED"   \* resp.code ?? 'UPSTREAM_SEND_FAILED'

\* The human_send relay's error code (app.ts 703-734).
HumanSendCode(outcome) ==
  CASE outcome = "http" -> "UPSTREAM_HTTP_ERROR"
    [] outcome = "timeout" -> "UPSTREAM_TIMEOUT"
    [] OTHER -> "UPSTREAM_NETWORK_ERROR"

\* The catch of the callback workflow (app.ts 1946-1953).
CatchCode(inbound, message) ==
  IF inbound.kind = "text"
    THEN IF message = "AI_TIMEOUT" THEN "AI_TIMEOUT" ELSE "AI_UPSTREAM_ERROR"
    ELSE "AUTOMATION_ERROR"

AutomationRun(wf, status, outputMessageId, code, nowMs) ==
  [id |-> wf.runId,
   trigger |-> IF wf.flow = "human_send" THEN "human_send" ELSE "webhook",
   conversationId |-> wf.conversationId,
   inputMessageId |-> wf.inbound.id,
   outputMessageId |-> outputMessageId,
   status |-> status,
   startedAt |-> wf.startedAt,
   endedAt |-> nowMs,
   code |-> code]

OutboundMessage(id, conversationId, source, kind, text, dataUrl, nowMs) ==
  [id |-> id, conversationId |-> conversationId, direction |-> "outbound",
   source |-> source, sentAt |-> nowMs, kind |-> kind, text |-> text,
   dataUrl |-> dataUrl, raw |-> ""]

\* dbState.automationRuns.push(run); await persist()
RecordRun(w, wf, run, pc, nowMs) ==
  LET st == Persist(PushRun(Store, run), nowMs)
  IN /\ dbState' = st.db
     /\ saves' = st.saves
     /\ wfs' = [wfs EXCEPT ![w] = [wf EXCEPT !.pc = pc, !.job = AwaitedSave(st)]]

\* dbState.messages.push(out); the summary fields; await persist()
RecordMessage(w, wf, out, nowMs) ==
  LET s1 == PushMessage(Store, out)
      s2 == AssignConversations(s1, TouchConversations(s1.db.conversations, out, nowMs))
      st == Persist(s2, nowMs)
  IN /\ dbState' = st.db
     /\ saves' = st.saves
     /\ wfs' = [wfs EXCEPT ![w] = [wf EXCEPT !.pc = "persistMsg", !.out = out.id,
                                             !.job = AwaitedSave(st)]]

\* The catch block of the callback workflow: one more failed run, then
\* persist(); an exception of this persist() leaves the workflow.
CatchAndRecord(w, wf, message, nowMs) ==
  RecordRun(w, wf,
            AutomationRun(wf, "failed", NoId, CatchCode(wf.inbound, message), nowMs),
            "persistCatch", nowMs)

\* The configuration checks the media and relay steps start with: the code
\* of the failed run, or "" when every check passes.
RelayConfigError(cfg, conversationId) ==
  IF ~cfg.catalog THEN "WKTEAM_CATALOG_UNAVAILABLE"
  ELSE IF ~cfg.upstream THEN "UPSTREAM_NOT_CONFIGURED"
  ELSE IF ~parseWkConversationId(conversationId).ok THEN "BAD_CONVERSATION_ID"
  ELSE ""

\* The operation the relay step of a webhook workflow calls and the
\* content it sends: the text of the AI message, the cdnUrl of the image,
\* the base64 text or the url of the file.
RelayOperation(wf) ==
  CASE wf.inbound.kind = "text" -> "sendText"
    [] wf.inbound.kind = "image" -> "sendImage2"
    [] wf.reply \in {"data", "bigdata"} -> "sendFileBase64"
    [] OTHER -> "sendFile"

RelayContent(wf) ==
  IF RelayOperation(wf) = "sendFileBase64" THEN <<Base64Of(wf.reply)>> ELSE <<wf.reply>>

\* fn is called: runId, startedAt, and the code up to the first await.
WorkflowStart(w) ==
  /\ w \in DOMAIN wfs
  /\ WorkflowMayStart(wfs, w)
  /\ LET wf == [wfs[w] EXCEPT !.runId = nextId, !.startedAt = now]
         err == RelayConfigError(config, wf.conversationId)
     IN CASE wf.flow = "human_send" ->
               \* the catalog holds sendText: fetch is issued
               /\ wfs' = [wfs EXCEPT ![w] = [wf EXCEPT !.pc = "relay",
                             !.calls = Fetch(@, "sendText", <<wf.inbound.text>>)]]
               /\ nextId' = nextId + 1
               /\ UNCHANGED <<dbState, saves>>
          [] wf.flow = "messages" \/ (wf.flow = "callback" /\ wf.inbound.kind = "text") ->
               \* messages: [{ role: 'user', content: inbound.text }]
               /\ wfs' = [wfs EXCEPT ![w] = [wf EXCEPT !.pc = "ai",
                             !.calls = Fetch(@, "chatCompletions", <<wf.inbound.text>>)]]
               /\ nextId' = nextId + 1
               /\ UNCHANGED <<dbState, saves>>
          [] wf.flow = "callback" /\ wf.inbound.kind = "image" ->
               /\ nextId' = nextId + 1
               /\ IF err # ""
                    THEN RecordRun(w, wf, AutomationRun(wf, "failed", NoId, err, now), "persistRun", now)
                  ELSE IF wf.inbound.dataUrl # "http"
                    THEN RecordRun(w, wf,
                           AutomationRun(wf, "skipped", NoId, "SKIPPED_NO_HTTP_URL", now),
                           "persistRun", now)
                  ELSE /\ wfs' = [wfs EXCEPT ![w] = [wf EXCEPT !.pc = "upload",
                                     !.calls = Fetch(@, "uploadCdnImage", <<wf.inbound.dataUrl>>)]]
                       /\ UNCHANGED <<dbState, saves>>
          [] wf.flow = "callback" /\ wf.inbound.kind = "file" ->
               IF err # ""
                 THEN /\ nextId' = nextId + 1
                      /\ RecordRun(w, wf, AutomationRun(wf, "failed", NoId, err, now), "persistRun", now)
                 ELSE /\ nextId' = nextId + 2
                      /\ RecordMessage(w, [wf EXCEPT !.reply = wf.inbound.dataUrl],
                           OutboundMessage(nextId + 1, wf.conversationId, "system", "file",
                                           "", wf.inbound.dataUrl, now), now)
  /\ UNCHANGED <<now, config, hook, disk, reqs, sse, sessions, webhookRateState>>

\* An upstream call takes time: the clock reads one unit later when it
\* settles than when it was issued.
Elapsed(nowMs) == nowMs + 1

\* chatCompletions settles.
WorkflowAiDone(w, outcome) ==
  /\ w \in DOMAIN wfs
  /\ wfs[w].pc = "ai"
  /\ outcome \in AiOutcomes
  /\ now' = Elapsed(now)
  /\ LET wf == [wfs[w] EXCEPT !.calls = CameBack(@, outcome)]
         aiMessage == OutboundMessage(nextId, wf.conversationId, "ai", "text", "reply", "", now')
     IN CASE outcome = "ok" /\ wf.flow = "callback" ->
               /\ nextId' = nextId + 1
               /\ RecordMessage(w, [wf EXCEPT !.reply = aiMessage.text], aiMessage, now')
          [] outcome = "ok" /\ wf.flow = "messages" ->
               \* the message, the summary fields and the run, then one persist()
               LET s1 == PushMessage(Store, aiMessage)
                   s2 == AssignConversations(s1,
                           TouchConversations(s1.db.conversations, aiMessage, now'))
                   s3 == PushRun(s2, AutomationRun(wf, "success", aiMessage.id, "", now'))
                   st == Persist(s3, now')
               IN /\ nextId' = nextId + 1
                  /\ dbState' = st.db
                  /\ saves' = st.saves
                  /\ wfs' = [wfs EXCEPT ![w] = [wf EXCEPT !.pc = "persistBoth",
                                          !.out = aiMessage.id, !.job = AwaitedSave(st)]]
          [] outcome # "ok" /\ wf.flow = "callback" ->
               /\ nextId' = nextId
               /\ CatchAndRecord(w, wf, AiErrorMessage(outcome), now')
          [] outcome # "ok" /\ wf.flow = "messages" ->
               /\ nextId' = nextId
               /\ RecordRun(w, wf, AutomationRun(wf, "failed", NoId, "AI_UPSTREAM_ERROR", now'),
                            "persistCatch", now')
  /\ UNCHANGED <<config, hook, disk, reqs, sse, sessions, webhookRateState>>

\* The upload call of the image workflow settles: the echo message carries
\* the cdnUrl of the answer, or the inbound url when there is none.
WorkflowUploadDone(w, outcome) ==
  /\ w \in DOMAIN wfs
  /\ wfs[w].pc = "upload"
  /\ outcome \in UpstreamOutcomes
  /\ now' = Elapsed(now)
  /\ nextId' = nextId + 1
  /\ LET cdnUrl == IF outcome = "ok" THEN "cdn" ELSE wfs[w].inbound.dataUrl
     IN RecordMessage(w, [wfs[w] EXCEPT !.reply = cdnUrl, !.calls = CameBack(@, outcome)],
          OutboundMessage(nextId, wfs[w].conversationId, "system", "image", "", cdnUrl, now'),
          now')
  /\ UNCHANGED <<config, hook, disk, reqs, sse, sessions, webhookRateState>>

\* The relay call (send text, send image, send file) settles.
WorkflowRelayDone(w, outcome) ==
  /\ w \in DOMAIN wfs
  /\ wfs[w].pc = "relay"
  /\ outcome \in UpstreamOutcomes
  /\ now' = Elapsed(now)
  /\ IF wfs[w].flow = "human_send"
       THEN RecordRun(w, [wfs[w] EXCEPT !.calls = CameBack(@, outcome)],
              AutomationRun(wfs[w], IF outcome = "ok" THEN "success" ELSE "failed",
                            wfs[w].inbound.id,
                            IF outcome = "ok" THEN "" ELSE HumanSendCode(outcome), now'),
              "persistLast", now')
       ELSE RecordRun(w, [wfs[w] EXCEPT !.calls = CameBack(@, outcome)],
              AutomationRun(wfs[w], IF outcome = "ok" THEN "success" ELSE "failed",
                            wfs[w].out,
                            IF outcome = "ok" THEN "" ELSE SendUpstreamCode(outcome), now'),
              "persistRun", now')
  /\ UNCHANGED <<config, hook, disk, reqs, sse, nextId, sessions, webhookRateState>>

Settle(w, how) == [wfs EXCEPT ![w].pc = "done", ![w].settled = how]

\* `await persist()` of a workflow returns or throws.
WorkflowPersisted(w) ==
  /\ w \in DOMAIN wfs
  /\ wfs[w].pc \in {"persistMsg", "persistRun", "persistBoth", "persistCatch", "persistLast"}
  /\ SaveSettled(wfs[w].job)
  /\ LET wf == wfs[w]
         failed == saves[wf.job].stage = "failed"
         err == RelayConfigError(config, wf.conversationId)
     IN CASE wf.pc \in {"persistCatch", "persistLast"} ->
               \* nothing catches this one: the promise of fn rejects
               /\ wfs' = Settle(w, IF failed THEN "rejected" ELSE "resolved")
               /\ UNCHANGED <<dbState, saves, sse>>
          [] wf.pc = "persistRun" /\ ~failed ->
               /\ wfs' = Settle(w, "resolved")
               /\ UNCHANGED <<dbState, saves, sse>>
          [] wf.pc \in {"persistRun", "persistMsg"} /\ failed ->
               /\ CatchAndRecord(w, wf, SaveErrorMessage, now)
               /\ UNCHANGED sse
          [] wf.pc = "persistBoth" /\ failed ->
               \* the catch of the /webhooks/wkteam/messages workflow
               /\ RecordRun(w, wf, AutomationRun(wf, "failed", NoId, "AI_UPSTREAM_ERROR", now),
                            "persistCatch", now)
               /\ UNCHANGED sse
          [] wf.pc = "persistBoth" /\ ~failed ->
               /\ sse' = EmitEvent(sse, "message.created",
                                      wf.conversationId, wf.out)
               /\ wfs' = Settle(w, "resolved")
               /\ UNCHANGED <<dbState, saves>>
          [] wf.pc = "persistMsg" /\ ~failed ->
               /\ sse' = EmitEvent(sse, "message.created",
                                      wf.conversationId, wf.out)
               /\ CASE wf.inbound.kind = "text" /\ err # "" ->
                         RecordRun(w, wf, AutomationRun(wf, "failed", wf.out, err, now),
                                   "persistRun", now)
                    [] wf.inbound.kind = "file" /\ wf.reply = "nodata" ->
                         RecordRun(w, wf,
                           AutomationRun(wf, "skipped", wf.out, "SKIPPED_EMPTY_BASE64", now),
                           "persistRun", now)
                    [] wf.inbound.kind = "file" /\ wf.reply = "" ->
                         RecordRun(w, wf,
                           AutomationRun(wf, "skipped", wf.out, "SKIPPED_NO_SENDER", now),
                           "persistRun", now)
                    [] OTHER ->
                         /\ wfs' = [wfs EXCEPT ![w].pc = "relay",
                                     ![w].calls = Fetch(@, RelayOperation(wf), RelayContent(wf))]
                         /\ UNCHANGED <<dbState, saves>>
  /\ UNCHANGED <<now, config, hook, disk, reqs, nextId, sessions, webhookRateState>>


(***************************************************************************)
(* POST /webhooks/wkteam/messages                                          *)
(***************************************************************************)
MessagesInput(dedupeKey, conversationId) ==
  [NoInput EXCEPT !.dedupeKey = dedupeKey, !.conversationId = conversationId,
                  !.content = "hello"]

\* dedupeKey is any string of the caller, so it may be one the callback
\* route derives.
MessagesInputs ==
  {MessagesInput(CallbackDedupeKey(WId, 1), WkConversationId(WId, "u", "p1"))}

\* The body is read before any state is: the request is modelled from the
\* moment readJsonBody resolves.  From there to `await persist()`.
MessagesBody(input) ==
  /\ Len(reqs) < MaxReq
  /\ LET r == Len(reqs) + 1
         inbound == [id |-> nextId, conversationId |-> input.conversationId,
                     direction |-> "inbound", source |-> "webhook", sentAt |-> now,
                     kind |-> "text", text |-> input.content, dataUrl |-> "", raw |-> ""]
         st == AppendInbound(
                 EnsureConversation(Store, input.conversationId, "unknown", now),
                 input.dedupeKey, inbound, now)
         req == NewRequest("messages", input)
     IN IF DedupeHit(dbState, input.dedupeKey)
          THEN /\ reqs' = Append(reqs, [req EXCEPT !.pc = "done", !.status = 200,
                                                   !.deduped = TRUE])
               /\ UNCHANGED <<dbState, saves, nextId>>
          ELSE /\ dbState' = st.db
               /\ saves' = st.saves
               /\ nextId' = nextId + 1
               /\ reqs' = Append(reqs, [req EXCEPT !.pc = "persist",
                                                   !.job = AwaitedSave(st),
                                                   !.msg = inbound])
  /\ UNCHANGED <<now, config, hook, disk, wfs, sse, sessions, webhookRateState>>

MessagesPersisted(r) ==
  /\ r \in DOMAIN reqs
  /\ reqs[r].route = "messages"
  /\ reqs[r].pc = "persist"
  /\ SaveSettled(reqs[r].job)
  /\ IF saves[reqs[r].job].stage = "failed"
       THEN /\ reqs' = Respond(r, 500, FALSE)
            /\ UNCHANGED <<wfs, sse>>
       ELSE /\ sse' = EmitEvent(sse, "message.created",
                                   reqs[r].msg.conversationId, reqs[r].msg.id)
            /\ IF dbState.automationEnabled
                 THEN /\ wfs' = EnqueueAutomation(wfs, "messages", r,
                                   reqs[r].msg.conversationId, reqs[r].msg)
                      /\ reqs' = [Respond(r, 200, FALSE) EXCEPT ![r].wf = Len(wfs) + 1]
                 ELSE /\ wfs' = wfs
                      /\ reqs' = Respond(r, 200, FALSE)
  /\ UNCHANGED <<now, config, hook, dbState, saves, disk, nextId, sessions, webhookRateState>>

(***************************************************************************)
(* DELETE /api/conversations/:id                                           *)
(***************************************************************************)
ConversationIds == {WkConversationId(WId, "u", p) : p \in Peers}

\* A DELETE that removes the conversation and keeps its messages.
DeleteConversation_KeepsMessages(id) ==
  /\ Len(reqs) < MaxReq
  /\ id \in ConversationIds
  /\ LET req == [NewRequest("delete", [NoInput EXCEPT !.conversationId = id])
                   EXCEPT !.pc = "persist"]
         s1 == AssignConversations(Store,
                 SelectSeq(dbState.conversations, LAMBDA c : c.id # id))
         st == Persist(s1, now)
     IN IF ~HasConversation(dbState, id)
          THEN /\ reqs' = Append(reqs, [req EXCEPT !.pc = "done", !.status = 404,
                                                  !.code = "NOT_FOUND"])
               /\ UNCHANGED <<dbState, saves>>
          ELSE /\ reqs' = Append(reqs, [req EXCEPT !.job = AwaitedSave(st)])
               /\ dbState' = st.db
               /\ saves' = st.saves
  /\ UNCHANGED <<now, config, hook, disk, wfs, sse, nextId, sessions, webhookRateState>>

\* No await before persist(): the request is handled as it arrives.
DeleteConversation(id) ==
  /\ Len(reqs) < MaxReq
  /\ id \in ConversationIds
  /\ LET req == [NewRequest("delete", [NoInput EXCEPT !.conversationId = id])
                   EXCEPT !.pc = "persist"]
         s1 == AssignConversations(Store,
                 SelectSeq(dbState.conversations, LAMBDA c : c.id # id))
         s2 == AssignMessages(s1,
                 SelectSeq(s1.db.messages, LAMBDA m : m.conversationId # id))
         st == Persist(s2, now)
     IN IF ~HasConversation(dbState, id)
          THEN /\ reqs' = Append(reqs, [req EXCEPT !.pc = "done", !.status = 404,
                                                  !.code = "NOT_FOUND"])
               /\ UNCHANGED <<dbState, saves>>
          ELSE /\ reqs' = Append(reqs, [req EXCEPT !.job = AwaitedSave(st)])
               /\ dbState' = st.db
               /\ saves' = st.saves
  /\ UNCHANGED <<now, config, hook, disk, wfs, sse, nextId, sessions, webhookRateState>>

DeletePersisted(r) ==
  /\ r \in DOMAIN reqs
  /\ reqs[r].route = "delete"
  /\ reqs[r].pc = "persist"
  /\ SaveSettled(reqs[r].job)
  /\ IF saves[reqs[r].job].stage = "failed"
       THEN /\ reqs' = Respond(r, 500, FALSE)
            /\ UNCHANGED sse
       ELSE /\ sse' = EmitConversationChanged(sse, reqs[r].in.conversationId, "deleted")
            /\ reqs' = Respond(r, 200, FALSE)
  /\ UNCHANGED <<now, config, hook, dbState, saves, disk, wfs, nextId, sessions, webhookRateState>>

(***************************************************************************)
(* POST /api/automation/status                                             *)
(***************************************************************************)
\* From the body to `await persist()`.
AutomationStatusBody(enabled) ==
  /\ Len(reqs) < MaxReq
  /\ enabled \in BOOLEAN
  /\ LET st == Persist(AssignAutomationEnabled(Store, enabled), now)
         req == NewRequest("automation", [NoInput EXCEPT !.enabled = enabled])
     IN /\ dbState' = st.db
        /\ saves' = st.saves
        /\ reqs' = Append(reqs, [req EXCEPT !.pc = "persist", !.job = AwaitedSave(st)])
  /\ UNCHANGED <<now, config, hook, disk, wfs, sse, nextId, sessions, webhookRateState>>

AutomationStatusPersisted(r) ==
  /\ r \in DOMAIN reqs
  /\ reqs[r].route = "automation"
  /\ reqs[r].pc = "persist"
  /\ SaveSettled(reqs[r].job)
  /\ reqs' = Respond(r, IF saves[reqs[r].job].stage = "failed" THEN 500 ELSE 200, FALSE)
  /\ UNCHANGED <<now, config, hook, dbState, saves, disk, wfs, sse, nextId, sessions, webhookRateState>>

(***************************************************************************)
(* POST /api/conversations/:id/messages (a text message)                   *)
(***************************************************************************)
\* From the body to `await persist()`; the handler does not look the
\* conversation up.
SendBody(id) ==
  /\ Len(reqs) < MaxReq
  /\ id \in ConversationIds
  /\ LET message == OutboundMessage(nextId, id, "human", "text", "hi", "", now)
         s1 == PushMessage(Store, message)
         s2 == AssignConversations(s1, TouchConversations(s1.db.conversations, message, now))
         st == Persist(s2, now)
         req == NewRequest("send", [NoInput EXCEPT !.conversationId = id, !.content = "hi"])
     IN /\ dbState' = st.db
        /\ saves' = st.saves
        /\ nextId' = nextId + 1
        /\ reqs' = Append(reqs, [req EXCEPT !.pc = "persist", !.job = AwaitedSave(st),
                                            !.msg = message])
  /\ UNCHANGED <<now, config, hook, disk, wfs, sse, sessions, webhookRateState>>

\* The relay is enqueued for a wk conversation when the catalog is loaded
\* and the upstream is configured.
SendPersisted(r) ==
  /\ r \in DOMAIN reqs
  /\ reqs[r].route = "send"
  /\ reqs[r].pc = "persist"
  /\ SaveSettled(reqs[r].job)
  /\ IF saves[reqs[r].job].stage = "failed"
       THEN /\ reqs' = Respond(r, 500, FALSE)
            /\ UNCHANGED <<wfs, sse>>
       ELSE /\ sse' = EmitEvent(sse, "message.created",
                                   reqs[r].msg.conversationId, reqs[r].msg.id)
            /\ IF /\ reqs[r].msg.kind = "text"
                  /\ parseWkConversationId(reqs[r].msg.conversationId).ok
                  /\ config.catalog
                  /\ config.upstream
                 THEN /\ wfs' = EnqueueAutomation(wfs, "human_send", r,
                                   reqs[r].msg.conversationId, reqs[r].msg)
                      /\ reqs' = [Respond(r, 200, FALSE) EXCEPT ![r].wf = Len(wfs) + 1]
                 ELSE /\ wfs' = wfs
                      /\ reqs' = Respond(r, 200, FALSE)
  /\ UNCHANGED <<now, config, hook, dbState, saves, disk, nextId, sessions, webhookRateState>>

(***************************************************************************)
(* The initial states and the specification.                               *)
(***************************************************************************)
\* The catalog is loaded, WEBHOOK_RATE_LIMIT_PER_MIN and WEBHOOK_IP_ALLOWLIST
\* have their defaults (no limit, no allowlist).
Configs == [catalog : {TRUE}, upstream : BOOLEAN, rateLimit : {0}, allowlist : {{}}]

\* db.json as an earlier run of the server left it: the automation switch
\* is on.
InitialFiles ==
  {AbsentFile, JsonStringify([createEmptyDb(0) EXCEPT !.automationEnabled = TRUE])}

Init ==
  /\ now = 1
  /\ config \in Configs
  /\ disk \in [canon : InitialFiles, tmp : {AbsentFile}]
  /\ dbState = loadOrInit(disk.canon, now)
  /\ saves = <<>>
  /\ reqs = <<>>
  /\ wfs = <<>>
  /\ sse = NoStreams
  /\ nextId = 1
  /\ sessions = {}
  /\ webhookRateState = <<>>
  /\ hook = NotMounted

Next ==
  \/ \E i \in 1..MaxSaves : SaveBegin(i) \/ SaveWritten(i) \/ SaveRenamed(i) \/ SaveFails(i)
  \/ \E input \in CallbackInputs : CallbackArrive(input)
  \/ \E input \in MessagesInputs : MessagesBody(input)
  \/ \E id \in ConversationIds : DeleteConversation(id) \/ SendBody(id)
  \/ \E enabled \in BOOLEAN : AutomationStatusBody(enabled)
  \/ \E r \in 1..MaxReq :
       \/ CallbackBody(r) \/ CallbackPersisted(r)
       \/ MessagesPersisted(r)
       \/ DeletePersisted(r)
       \/ AutomationStatusPersisted(r)
       \/ SendPersisted(r)
  \/ \E w \in 1..MaxReq :
       \/ WorkflowStart(w)
       \/ \E outcome \in AiOutcomes : WorkflowAiDone(w, outcome)
       \/ \E outcome \in UpstreamOutcomes :
            WorkflowUploadDone(w, outcome) \/ WorkflowRelayDone(w, outcome)
       \/ WorkflowPersisted(w)

Spec == Init /\ [][Next]_vars

(***************************************************************************)
(* Restart of the process, and the specifications of loading and of fair   *)
(* scheduling.                                                             *)
(***************************************************************************)
\* The process stops at any moment and createApp runs again: the requests,
\* the workflows and the write queue of the old process are gone, the files
\* stay, and dbState is what loadOrInit reads.
Restart ==
  /\ dbState' = loadOrInit(disk.canon, now)
  /\ saves' = <<>>
  /\ reqs' = <<>>
  /\ wfs' = <<>>
  /\ sse' = NoStreams
  /\ sessions' = {}
  /\ webhookRateState' = <<>>
  /\ UNCHANGED <<now, config, hook, disk, nextId>>

\* Documents a db.json may hold when the server starts: written by this
\* version, by another version, or by hand.
LoadDocs ==
  LET base == createEmptyDb(0)
      conv(u) == [NewConversation(WkConversationId(WId, "u", "p1"), "p1", 0)
                    EXCEPT !.unreadCount = u]
      msg(k) == [NoMessage EXCEPT !.id = 1, !.kind = k, !.raw = "payload"]
      run(t, s) == [id |-> 2, trigger |-> t,
                    conversationId |-> WkConversationId(WId, "u", "p1"),
                    inputMessageId |-> 1, outputMessageId |-> NoId, status |-> s,
                    startedAt |-> 0, endedAt |-> 0, code |-> ""]
  IN {[base EXCEPT !.automationEnabled = b] : b \in BOOLEAN}
     \cup {[base EXCEPT !.schemaVersion = v] : v \in {0, 2}}
     \cup {[base EXCEPT !.conversations = <<conv(u)>>] : u \in {0 - 1, 0, 3}}
     \cup {[base EXCEPT !.messages = <<msg(k)>>] : k \in {"text", "video"}}
     \cup {[base EXCEPT !.automationRuns = <<run(t, s)>>] :
             t \in {"webhook", "manual", "human_send"}, s \in {"success", "running"}}

LoadFiles ==
  {AbsentFile} \cup {JsonStringify(j) : j \in LoadDocs}
               \cup {PartialFile(JsonStringify(j)) : j \in LoadDocs}

LoadInit ==
  /\ now = 1
  /\ config \in Configs
  /\ disk \in [canon : LoadFiles, tmp : {AbsentFile}]
  /\ dbState = loadOrInit(disk.canon, now)
  /\ saves = <<>>
  /\ reqs = <<>>
  /\ wfs = <<>>
  /\ sse = NoStreams
  /\ nextId = 1
  /\ sessions = {}
  /\ webhookRateState = <<>>
  /\ hook = NotMounted

LoadNext ==
  \/ Restart
  \/ \E enabled \in BOOLEAN : AutomationStatusBody(enabled)
  \/ \E r \in 1..MaxReq : AutomationStatusPersisted(r)
  \/ \E i \in 1..MaxSaves : SaveBegin(i) \/ SaveWritten(i) \/ SaveRenamed(i) \/ SaveFails(i)

LoadSpec == LoadInit /\ [][LoadNext]_vars

\* The automation lane fed by text messages on the callback route.
\* Progress is a step of the server itself, as opposed to the arrival of a
\* request: a callback of the event loop that is ready runs, and every
\* awaited operation (a file operation, an upstream call with its timeout)
\* settles.
Progress ==
  \/ \E i \in 1..MaxSaves : SaveBegin(i) \/ SaveWritten(i) \/ SaveRenamed(i) \/ SaveFails(i)
  \/ \E r \in 1..MaxReq : CallbackBody(r) \/ CallbackPersisted(r)
  \/ \E w \in 1..MaxReq :
       \/ WorkflowStart(w)
       \/ \E outcome \in AiOutcomes : WorkflowAiDone(w, outcome)
       \/ \E outcome \in UpstreamOutcomes : WorkflowRelayDone(w, outcome)
       \/ WorkflowPersisted(w)

LaneInputs ==
  {input \in CallbackInputs : ~input.self /\ input.messageType \in TextTypes}

LaneNext ==
  \/ \E input \in LaneInputs : CallbackArrive(input)
  \/ Progress

FairSpec == Init /\ [][LaneNext]_vars /\ WF_vars(Progress)

(***************************************************************************)
(* Vocabulary of the properties.                                           *)
(***************************************************************************)
IsWebhook(req) == req.route \in {"callback", "messages"}

\* The idempotency key of a webhook delivery.
KeyOf(req) ==
  IF req.route = "callback" THEN CallbackDedupeKey(WId, req.in.newMsgId)
  ELSE req.in.dedupeKey

Keys == {CallbackDedupeKey(WId, n) : n \in 1..MaxMsgId}

\* A delivery with key K has been accepted: answered 200 without the deduped flag.
Accepted(K) ==
  \E q \in DOMAIN reqs :
    /\ IsWebhook(reqs[q]) /\ KeyOf(reqs[q]) = K
    /\ reqs[q].pc = "done" /\ reqs[q].status = 200 /\ ~reqs[q].deduped

\* The stored messages that deliveries with key K appended.
MessagesFor(K) ==
  {i \in DOMAIN dbState.messages :
     \E q \in DOMAIN reqs :
       /\ IsWebhook(reqs[q]) /\ KeyOf(reqs[q]) = K
       /\ reqs[q].msg.id = dbState.messages[i].id}

\* Request r passes its dedupe check in this step.
ChecksDedupe(r) ==
  /\ r \in DOMAIN reqs'
  /\ IsWebhook(reqs'[r])
  /\ IF r \in DOMAIN reqs THEN reqs[r].pc = "body" /\ reqs'[r].pc # "body"
     ELSE reqs'[r].route = "messages"

\* The conversation of the message appended for K was deleted afterwards:
\* persist() of the DELETE handler was called after persist() of the
\* delivery, so its save is queued behind that one.
ConversationDeleted(K) ==
  \E q, d \in DOMAIN reqs :
    /\ IsWebhook(reqs[q]) /\ KeyOf(reqs[q]) = K /\ reqs[q].msg.id # NoId
    /\ reqs[d].route = "delete" /\ reqs[d].status # 404
    /\ reqs[d].in.conversationId = reqs[q].msg.conversationId
    /\ reqs[d].job > reqs[q].job

Published(event, messageId) ==
  {i \in DOMAIN sse.events :
     sse.events[i].event = event /\ sse.events[i].messageId = messageId}

(***************************************************************************)
(* C1                                                                      *)
(***************************************************************************)

C1_DedupedStep ==
  \A r \in 1..MaxReq :
    (ChecksDedupe(r) /\ Accepted(KeyOf(reqs'[r])))
      => /\ reqs'[r].pc = "done"
         /\ reqs'[r].status = 200
         /\ reqs'[r].deduped
         /\ dbState' = dbState
         /\ saves' = saves
         /\ sse' = sse

C1_AtMostOneMessage ==
  \A K \in Keys :
    /\ Cardinality(MessagesFor(K)) <= 1
    /\ (Accepted(K) /\ ~ConversationDeleted(K)) => Cardinality(MessagesFor(K)) = 1

SameKeyCallbacks ==
  {pair \in (DOMAIN reqs) \X (DOMAIN reqs) :
     /\ pair[1] # pair[2]
     /\ reqs[pair[1]].route = "callback" /\ reqs[pair[2]].route = "callback"
     /\ KeyOf(reqs[pair[1]]) = KeyOf(reqs[pair[2]])}

Appended(r) == reqs[r].msg.id # NoId

\* No delivery other than a and b carries their key.
OnlyDeliveries(a, b) ==
  \A q \in DOMAIN reqs \ {a, b} : ~(IsWebhook(reqs[q]) /\ KeyOf(reqs[q]) = KeyOf(reqs[a]))

C2_OneAppends ==
  \A pair \in SameKeyCallbacks :
    LET a == pair[1]
        b == pair[2]
    IN /\ ~(Appended(a) /\ Appended(b))
       /\ (reqs[a].pc = "done" /\ reqs[b].pc = "done")
            => /\ OnlyDeliveries(a, b) => (Appended(a) # Appended(b))
               /\ Appended(a) => (reqs[b].status = 200 /\ reqs[b].deduped)
               /\ (Appended(a) /\ reqs[a].status = 200)
                    => Cardinality(Published("message.created", reqs[a].msg.id)) = 1
       /\ Cardinality(Published("message.created", reqs[a].msg.id)) <= 1

C2_CheckAndInsertTogether ==
  \A r \in DOMAIN reqs :
    (reqs[r].route = "callback" /\ reqs[r].pc = "body" /\ reqs'[r].pc = "persist")
      => /\ ~DedupeHit(dbState, KeyOf(reqs[r]))
         /\ DedupeHit(dbState', KeyOf(reqs[r]))

\* C2: of two callback requests with the same key, whatever the order of
\* their steps, never both append a message; once both are answered one has
\* appended and the other was answered 200 deduped:true, and
\* message.created was published exactly once for the appended message
\* when its save succeeded; the step in which a request finds the key absent
\* is the step in which it records the key.
C2_ConcurrentSameKey == [](C2_OneAppends) /\ [][C2_CheckAndInsertTogether]_vars

\* Both requests had arrived before either read its body; one is still
\* awaiting persist() when the other is answered deduped.
C2_Witness ==
  \E pair \in SameKeyCallbacks :
    /\ reqs[pair[1]].pc = "persist"
    /\ saves[reqs[pair[1]].job].stage = "queued"
    /\ reqs[pair[2]].pc = "done" /\ reqs[pair[2]].deduped

(***************************************************************************)
(* C3                                                                      *)
(***************************************************************************)

Writing(i) == saves[i].stage \in {"writing", "renaming"}

C3_Ordered ==
  \A i, j \in DOMAIN saves :
    i < j => /\ (Writing(j) \/ saves[j].stage = "done") => saves[i].stage = "done"
             /\ ~(Writing(i) /\ Writing(j))

C3_ResolvesAfterOwnRename ==
  /\ \A i \in DOMAIN saves :
       (i \in DOMAIN saves' /\ saves[i].stage # "done" /\ saves'[i].stage = "done")
         => /\ saves[i].stage = "renaming"
            /\ disk'.canon = disk.tmp
            /\ disk'.canon.complete
  /\ \A r \in DOMAIN reqs :
       (r \in DOMAIN reqs' /\ reqs[r].pc = "persist" /\ reqs'[r].pc = "done"
          /\ reqs'[r].status = 200)
         => saves[reqs[r].job].stage = "done"
  /\ \A w \in DOMAIN wfs :
       (w \in DOMAIN wfs' /\ wfs[w].pc = "persistRun" /\ wfs'[w].settled = "resolved")
         => saves[wfs[w].job].stage = "done"

\* C3: a save's temp-file write begins only when every save called before
\* it has completed its rename, so writes happen in call order and never two
\* at a time; a save is fulfilled only by its own rename, and a handler or
\* workflow awaiting it continues normally only then.
C3_WritesTotallyOrdered == [](C3_Ordered) /\ [][C3_ResolvesAfterOwnRename]_vars

\* A request handler and a workflow both await a save; the earlier one is
\* being written and the later one waits for it.
C3_Witness ==
  \E i \in DOMAIN saves, r \in DOMAIN reqs, w \in DOMAIN wfs :
    /\ i + 1 \in DOMAIN saves
    /\ saves[i].stage = "writing"
    /\ saves[i + 1].stage = "queued"
    /\ reqs[r].pc = "persist"
    /\ wfs[w].pc \in {"persistMsg", "persistRun"}
    /\ {reqs[r].job, wfs[w].job} = {i, i + 1}

(***************************************************************************)
(* C4                                                                      *)
(***************************************************************************)
\* loadOrInit reads the snapshot the file holds, not the empty default.
Loadable(file) == file.exists /\ file.complete /\ dbSchemaV1Accepts(file.json)

\* The part of C4 that needs no schema: db.json is never a partly written
\* document, and only a completed rename changes it.
WholeSnapshot ==
  /\ [](disk.canon.exists => disk.canon.complete)
  /\ [][disk'.canon # disk.canon =>
         \E i \in DOMAIN saves : saves[i].stage = "renaming" /\ saves'[i].stage = "done"]_vars

Unreadable(file) ==
  \/ ~file.exists
  \/ ~file.complete
  \/ ~dbSchemaV1Accepts(file.json)

EmptyDefault(db) ==
  /\ db.schemaVersion = 1
  /\ ~db.automationEnabled
  /\ db.conversations = <<>>
  /\ db.messages = <<>>
  /\ db.automationRuns = <<>>
  /\ db.webhookDedupeKeys = <<>>

\* C5: when db.json is absent, is not a whole JSON document or fails the
\* schema, the snapshot the server starts with, at the first start and at
\* every restart, is the empty default.
C5_LoadOrInitNeverFails ==
  /\ Unreadable(disk.canon) => EmptyDefault(dbState)
  /\ [][(Restart /\ Unreadable(disk.canon)) => EmptyDefault(dbState')]_vars

\* The server has just started on a whole document the schema rejects.
C5_Witness ==
  /\ reqs = <<>>
  /\ saves = <<>>
  /\ disk.canon.exists /\ disk.canon.complete
  /\ ~dbSchemaV1Accepts(disk.canon.json)
  /\ disk.canon.json.automationRuns # <<>>
  /\ EmptyDefault(dbState)

(***************************************************************************)
(* C6                                                                      *)
(***************************************************************************)
Executing(w) == wfs[w].pc \notin {"queued", "done"}

AllSettled == \A w \in DOMAIN wfs : wfs[w].pc = "done"

\* The part of C6 about the order of execution: first in, first out, one
\* workflow at a time.
OneLaneInOrder ==
  /\ \A v, w \in DOMAIN wfs : (v < w /\ wfs[w].pc # "queued") => wfs[v].pc = "done"
  /\ Cardinality({w \in DOMAIN wfs : Executing(w)}) <= 1

C7_LaneNeverDies ==
  \A w \in 1..MaxReq :
    (w \in DOMAIN wfs) ~> (w \in DOMAIN wfs /\ wfs[w].pc = "done")

\* A workflow ran after the promise of the one before it was rejected.
C7_Witness ==
  \E v, w \in DOMAIN wfs :
    /\ v < w
    /\ wfs[v].settled = "rejected"
    /\ wfs[w].runId # NoId
    /\ wfs[w].pc = "done"

(***************************************************************************)
(* C8                                                                      *)
(***************************************************************************)
RunsOf(w) ==
  {i \in DOMAIN dbState.automationRuns :
     /\ dbState.automationRuns[i].id = wfs[w].runId
     /\ dbState.automationRuns[i].inputMessageId = wfs[w].inbound.id}

Starts(w) ==
  /\ w \in DOMAIN wfs'
  /\ wfs'[w].pc # "queued"
  /\ IF w \in DOMAIN wfs THEN wfs[w].pc = "queued" ELSE TRUE

C9_RespondsBeforeFirstStep ==
  /\ \A w \in 1..MaxReq :
       (Starts(w) /\ wfs'[w].flow \in {"callback", "messages"})
         => /\ w \in DOMAIN wfs
            /\ reqs[wfs[w].req].pc = "done"
            /\ reqs[wfs[w].req].status = 200
            /\ saves[reqs[wfs[w].req].job].stage = "done"
  /\ \A r \in DOMAIN reqs :
       (r \in DOMAIN reqs' /\ IsWebhook(reqs[r]) /\ reqs[r].wf = 0 /\ reqs'[r].wf # 0)
         => /\ reqs'[r].pc = "done"
            /\ reqs'[r].status = 200
            /\ saves[reqs[r].job].stage = "done"
            /\ wfs'[reqs'[r].wf].pc = "queued"

\* C9: the step in which a webhook handler enqueues a workflow is the step
\* in which it writes its 200 response, the save holding the inbound
\* message has completed by then, and the workflow's first step comes in a
\* later step.
C9_HandlerDoesNotWait == [][C9_RespondsBeforeFirstStep]_vars

\* The caller has its 200 while the completion call of the workflow it
\* triggered is still in flight.
C9_Witness ==
  \E r \in DOMAIN reqs :
    /\ reqs[r].route = "callback"
    /\ reqs[r].status = 200
    /\ reqs[r].wf # 0
    /\ wfs[reqs[r].wf].pc = "ai"

(***************************************************************************)
(* C10                                                                     *)
(***************************************************************************)

AutomatableTypes == {"60001", "80001", "60002", "80002", "60008", "80008"}

\* The callback handler of request r takes its decision in this step.
Decides(r) ==
  /\ r \in DOMAIN reqs'
  /\ reqs[r].route = "callback"
  /\ reqs[r].pc = "persist"
  /\ reqs'[r].pc = "done"
  /\ reqs'[r].status = 200

EnqueuesFor(r) ==
  /\ Len(wfs') = Len(wfs) + 1
  /\ wfs'[Len(wfs')].req = r
  /\ wfs'[Len(wfs')].inbound.id = reqs[r].msg.id
  /\ reqs'[r].wf = Len(wfs')

C10_Decision ==
  /\ \A r \in DOMAIN reqs :
       Decides(r) =>
         /\ Appended(r)
         /\ IF /\ dbState.automationEnabled
               /\ ~reqs[r].in.self
               /\ reqs[r].in.messageType \in AutomatableTypes
              THEN EnqueuesFor(r)
              ELSE wfs' = wfs /\ reqs'[r].wf = 0
  /\ (Len(wfs') > Len(wfs) /\ wfs'[Len(wfs')].flow = "callback")
       => Decides(wfs'[Len(wfs')].req)

C10_NoRunOtherwise ==
  \A r \in DOMAIN reqs :
    (reqs[r].route = "callback" /\ reqs[r].pc = "done" /\ Appended(r) /\ reqs[r].wf = 0)
      => \A i \in DOMAIN dbState.automationRuns :
           dbState.automationRuns[i].inputMessageId # reqs[r].msg.id

\* C10: a callback delivery whose message was stored enqueues a workflow
\* exactly when, at the moment of the decision, automation is enabled, the
\* message is not a self-echo and its messageType is one of 60001, 80001,
\* 60002, 80002, 60008, 80008; a workflow of the callback route is enqueued
\* by no other step, and no AutomationRun ever names the message of a
\* delivery that did not enqueue.
C10_EnqueueIff == [](C10_NoRunOtherwise) /\ [][C10_Decision]_vars

\* Automation is on and a self-echo was stored and answered without a
\* workflow, while a peer's message got one.
C10_Witness ==
  \E q, r \in DOMAIN reqs :
    /\ reqs[q].route = "callback" /\ reqs[q].status = 200 /\ reqs[q].in.self
    /\ Appended(q) /\ reqs[q].wf = 0
    /\ reqs[r].route = "callback" /\ reqs[r].status = 200 /\ ~reqs[r].in.self
    /\ reqs[r].wf # 0
    /\ dbState.automationEnabled

(***************************************************************************)
(* Authentication: the API gate, the login sessions and the webhook gate.  *)
(***************************************************************************)
MaxGateReq == 3
MaxTicks == 2

BffApiToken == "token"
WebhookSecret == "secret"

\* (LOCAL_LOGIN_PASSWORD || '').trim() || BFF_API_TOKEN, with
\* LOCAL_LOGIN_PASSWORD left at its default
loginPassword == BffApiToken

\* `Bearer ${deps.config.BFF_API_TOKEN}`
Bearer(token) == "Bearer " \o token

\* requireSessionAuth for a server that trusts any cookie value.
requireSessionAuth_AnyCookie(live, in) == in.cookie # NoId

\* pickSessionId(req) is not null and names a live session
requireSessionAuth(live, in) == in.cookie # NoId /\ in.cookie \in live

requireApiAuth(live, in) ==
  IF in.authorization = Bearer(BffApiToken) THEN TRUE ELSE requireSessionAuth(live, in)

\* The gate of every /api/* route but /api/auth/login, logout and me.
ApiAuthorized(live, pathname, in) ==
  IF pathname = "/api/events"
    THEN requireApiAuth(live, in) \/ in.token = BffApiToken
    ELSE requireApiAuth(live, in)

\* writeJson(res, status, {error: {code}}) of a request answered as it arrives
Answer(req, status, code) == [req EXCEPT !.pc = "done", !.status = status, !.code = code]

\* A cookie value no login handed out.
ForgedSid == NoId - 1

\* The credentials a client may send: none, the bearer token, another
\* token, the token without its scheme, a cookie value (of a live session,
\* of a session that was logged out, or made up), ?token=.
ApiCredentials ==
  LET none == [authorization |-> "", cookie |-> NoId, token |-> ""]
  IN {none}
     \cup {[none EXCEPT !.authorization = a] :
             a \in {Bearer(BffApiToken), Bearer("guess"), BffApiToken}}
     \cup {[none EXCEPT !.cookie = c] : c \in 1..(nextId - 1) \cup {ForgedSid}}
     \cup {[none EXCEPT !.token = BffApiToken]}

GatedPaths == {"/api/automation/status", "/api/events"}

RouteOf(pathname) == IF pathname = "/api/events" THEN "events" ELSE "automation"

\* A request to a gated /api/* route: 401 at the gate, or the route's
\* handler -- GET /api/events opens the stream, POST /api/automation/status
\* runs up to its `await persist()`.
ApiRequest(pathname, cred, enabled) ==
  /\ Len(reqs) < MaxGateReq
  /\ pathname \in GatedPaths
  /\ LET in == [NoInput EXCEPT !.authorization = cred.authorization,
                               !.cookie = cred.cookie, !.token = cred.token,
                               !.enabled = enabled]
         req == [NewRequest(RouteOf(pathname), in) EXCEPT !.at = now]
         st == Persist(AssignAutomationEnabled(Store, enabled), now)
     IN IF ~ApiAuthorized(sessions, pathname, in)
          THEN /\ reqs' = Append(reqs, Answer(req, 401, "UNAUTHORIZED"))
               /\ UNCHANGED <<dbState, saves, sse>>
        ELSE IF pathname = "/api/events"
          THEN \* sseClients.add(res)
               /\ reqs' = Append(reqs, Answer(req, 200, ""))
               /\ sse' = [sse EXCEPT !.clients = @ \cup {Len(reqs) + 1}]
               /\ UNCHANGED <<dbState, saves>>
        ELSE /\ dbState' = st.db
             /\ saves' = st.saves
             /\ reqs' = Append(reqs, [req EXCEPT !.pc = "persist", !.job = AwaitedSave(st)])
             /\ UNCHANGED sse
  /\ UNCHANGED <<now, config, hook, disk, wfs, nextId, sessions, webhookRateState>>

\* req.on('close'): sseClients.delete(res)
StreamClosed(r) ==
  /\ r \in sse.clients
  /\ sse' = [sse EXCEPT !.clients = @ \ {r}]
  /\ UNCHANGED <<now, config, hook, dbState, saves, disk, reqs, wfs, nextId, sessions,
                 webhookRateState>>

\* The stream is destroyed under the server: from now on res.write throws.
StreamBreaks(r) ==
  /\ r \in sse.clients \ sse.broken
  /\ sse' = [sse EXCEPT !.broken = @ \cup {r}]
  /\ UNCHANGED <<now, config, hook, dbState, saves, disk, reqs, wfs, nextId, sessions,
                 webhookRateState>>

Passwords == {loginPassword, "guess"}

\* POST /api/auth/login, from the body on: sessions.set(randomUUID(), ...)
Login(password) ==
  /\ Len(reqs) < MaxGateReq
  /\ LET req == [NewRequest("login", [NoInput EXCEPT !.password = password])
                   EXCEPT !.at = now]
     IN IF password # loginPassword
          THEN /\ reqs' = Append(reqs, Answer(req, 401, "UNAUTHORIZED"))
               /\ UNCHANGED <<sessions, nextId>>
          ELSE /\ sessions' = sessions \cup {nextId}
               /\ nextId' = nextId + 1
               /\ reqs' = Append(reqs, Answer(req, 200, ""))
  /\ UNCHANGED <<now, config, hook, dbState, saves, disk, wfs, sse, webhookRateState>>

\* A logout that clears the cookie of the browser and keeps the session.
Logout_KeepsSession(cookie) ==
  /\ Len(reqs) < MaxGateReq
  /\ cookie \in sessions
  /\ reqs' = Append(reqs, Answer([NewRequest("logout", [NoInput EXCEPT !.cookie = cookie])
                                    EXCEPT !.at = now], 200, ""))
  /\ UNCHANGED <<now, config, hook, dbState, saves, disk, wfs, sse, nextId, sessions,
                 webhookRateState>>

\* POST /api/auth/logout: sessions.delete(sid)
Logout(cookie) ==
  /\ Len(reqs) < MaxGateReq
  /\ cookie \in sessions
  /\ sessions' = sessions \ {cookie}
  /\ reqs' = Append(reqs, Answer([NewRequest("logout", [NoInput EXCEPT !.cookie = cookie])
                                    EXCEPT !.at = now], 200, ""))
  /\ UNCHANGED <<now, config, hook, dbState, saves, disk, wfs, sse, nextId, webhookRateState>>

\* ---- the gate of /webhooks/* ----
WindowMs == 60000
TickMs == WindowMs \div 2

ClientIps == {"ip1", "ip2"}

\* webhookIpAllowlist.length > 0 and the address is not in it
IpAllowed(cfg, ip) == IF cfg.allowlist = {} THEN TRUE ELSE ip \in cfg.allowlist

\* Math.floor(deps.nowMs() / 60_000) * 60_000
WindowStart(nowMs) == (nowMs \div WindowMs) * WindowMs

\* CountRequest for a counter that never starts a new window.
CountRequest_OneWindow(rate, ip, nowMs) ==
  IF ip \in DOMAIN rate
    THEN [rate EXCEPT ![ip].count = @ + 1]
    ELSE (ip :> [windowStart |-> WindowStart(nowMs), count |-> 1]) @@ rate

\* webhookRateState.set(key, {windowStart, count: 1}) or cur.count += 1
CountRequest(rate, ip, nowMs) ==
  IF ip \in DOMAIN rate
    THEN IF rate[ip].windowStart = WindowStart(nowMs)
           THEN [rate EXCEPT ![ip].count = @ + 1]
           ELSE [rate EXCEPT ![ip] = [windowStart |-> WindowStart(nowMs), count |-> 1]]
    ELSE (ip :> [windowStart |-> WindowStart(nowMs), count |-> 1]) @@ rate

\* headerOk || queryOk || pathOk
SecretOk(in) ==
  \/ in.header = WebhookSecret
  \/ in.query = WebhookSecret
  \/ in.path = WebhookSecret

\* Where a delivery may carry a secret: nowhere, in one of the three places,
\* or a wrong one.
WebhookCredentials ==
  LET none == [header |-> "", query |-> "", path |-> ""]
  IN {none,
      [none EXCEPT !.header = WebhookSecret],
      [none EXCEPT !.query = WebhookSecret],
      [none EXCEPT !.path = WebhookSecret],
      [none EXCEPT !.header = "guess"]}

\* A /webhooks/* request from its arrival to `await readJsonBody`: the
\* allowlist, then the rate limit, then the secret.
WebhookArrive(ip, cred, input) ==
  /\ Len(reqs) < MaxGateReq
  /\ LET in == [input EXCEPT !.ip = ip, !.header = cred.header,
                             !.query = cred.query, !.path = cred.path]
         req == [NewRequest("callback", in) EXCEPT !.at = now]
         counted == CountRequest(webhookRateState, ip, now)
     IN IF ~IpAllowed(config, ip)
          THEN /\ reqs' = Append(reqs, Answer(req, 403, "FORBIDDEN"))
               /\ UNCHANGED webhookRateState
        ELSE IF config.rateLimit > 0
          THEN /\ webhookRateState' = counted
               /\ IF counted[ip].count > config.rateLimit
                    THEN reqs' = Append(reqs, Answer(req, 429, "RATE_LIMITED"))
                  ELSE IF ~SecretOk(in)
                    THEN reqs' = Append(reqs, Answer(req, 401, "UNAUTHORIZED"))
                  ELSE reqs' = Append(reqs, req)
        ELSE /\ UNCHANGED webhookRateState
             /\ IF ~SecretOk(in)
                  THEN reqs' = Append(reqs, Answer(req, 401, "UNAUTHORIZED"))
                  ELSE reqs' = Append(reqs, req)
  /\ UNCHANGED <<now, config, hook, dbState, saves, disk, wfs, sse, nextId, sessions>>

\* Time passes: half a rate-limit window.
Tick ==
  /\ now < MaxTicks * TickMs
  /\ now' = now + TickMs
  /\ UNCHANGED <<config, hook, dbState, saves, disk, reqs, wfs, sse, nextId,
                 sessions, webhookRateState>>

GateConfigs ==
  [catalog : {TRUE}, upstream : {TRUE}, rateLimit : 0..2, allowlist : {{}, {"ip1"}}]

\* Deliveries of text the account itself sent: no workflow follows them.
GateInputs == {CallbackInput(1, "p1", TRUE, "80001", "hello")}

GateInit ==
  /\ now = 1
  /\ config \in GateConfigs
  /\ disk = [canon |-> AbsentFile, tmp |-> AbsentFile]
  /\ dbState = loadOrInit(disk.canon, now)
  /\ saves = <<>>
  /\ reqs = <<>>
  /\ wfs = <<>>
  /\ sse = NoStreams
  /\ nextId = 1
  /\ sessions = {}
  /\ webhookRateState = <<>>
  /\ hook = NotMounted

GateNext ==
  \/ \E ip \in ClientIps, cred \in WebhookCredentials, input \in GateInputs :
       WebhookArrive(ip, cred, input)
  \/ Tick
  \/ \E r \in 1..MaxGateReq : CallbackBody(r) \/ CallbackPersisted(r)
  \/ \E i \in 1..MaxSaves : SaveBegin(i) \/ SaveWritten(i) \/ SaveRenamed(i)

GateSpec == GateInit /\ [][GateNext]_vars

\* The API gate and the sessions, with the default configuration.
AuthInit == GateInit /\ config.rateLimit = 0 /\ config.allowlist = {}

AuthNext ==
  \/ \E pathname \in GatedPaths, cred \in ApiCredentials, enabled \in BOOLEAN :
       ApiRequest(pathname, cred, enabled)
  \/ \E password \in Passwords : Login(password)
  \/ \E cookie \in 1..MaxGateReq : Logout(cookie)
  \/ \E r \in 1..MaxGateReq : AutomationStatusPersisted(r)
  \/ \E i \in 1..MaxSaves : SaveBegin(i) \/ SaveWritten(i) \/ SaveRenamed(i)

AuthSpec == AuthInit /\ [][AuthNext]_vars

(***************************************************************************)
(* Vocabulary of the gate properties.                                      *)
(***************************************************************************)
\* This step is the arrival of a request, and the request as it stands
\* when the step ends.
IsArrival == Len(reqs') = Len(reqs) + 1

Arrival == IF IsArrival THEN reqs'[Len(reqs')] ELSE NewRequest("", NoInput)

\* Everything the server holds besides the record of the request itself.
ServerState ==
  <<now, config, dbState, saves, disk, wfs, sse, nextId, sessions, webhookRateState>>

Rejected(req, status, code) == req.pc = "done" /\ req.status = status /\ req.code = code

\* The request carries the exact bearer token, the cookie of a session
\* that is live when it arrives, or -- to /api/events -- ?token=.
Credentialed(req) ==
  \/ req.in.authorization = "Bearer token"
  \/ req.in.cookie \in sessions
  \/ (req.route = "events" /\ req.in.token = "token")

GatedApi(req) == req.route \in {"automation", "events"}

(***************************************************************************)
(* C11: a request to a gated /api/* route with neither the exact bearer    *)
(* token nor the cookie of a live session (nor ?token= on /api/events) is  *)
(* answered 401 UNAUTHORIZED and changes no state; with any one of them it *)
(* is not answered 401; a login with a wrong password is answered 401 and  *)
(* creates no session.                                                     *)
(***************************************************************************)
C11_Unauthorized ==
  IsArrival /\ GatedApi(Arrival) /\ ~Credentialed(Arrival)
    => Rejected(Arrival, 401, "UNAUTHORIZED") /\ UNCHANGED ServerState

C11_EitherSuffices ==
  IsArrival /\ GatedApi(Arrival) /\ Credentialed(Arrival)
    => /\ Arrival.status # 401
       /\ Arrival.route = "automation"
            => Arrival.pc = "persist" /\ dbState'.automationEnabled = Arrival.in.enabled

C11_WrongPassword ==
  IsArrival /\ Arrival.route = "login" /\ Arrival.in.password # "token"
    => Rejected(Arrival, 401, "UNAUTHORIZED") /\ sessions' = sessions

IsDelivery(req) == req.route = "callback" /\ req.in.ip # ""

\* The secret is in the header, in ?secret= or in the path segment.
HasSecret(req) == "secret" \in {req.in.header, req.in.query, req.in.path}

\* The deliveries of `ip` that arrived in the window of `nowMs` and were not
\* turned away by the allowlist.
InWindow(ip, nowMs) ==
  {r \in DOMAIN reqs :
     /\ IsDelivery(reqs[r]) /\ reqs[r].in.ip = ip
     /\ reqs[r].at \div 60000 = nowMs \div 60000
     /\ reqs[r].status # 403}

\* What a delivery that did not reach the handler leaves alone.
NothingCreated == UNCHANGED <<dbState, saves, disk, wfs, sse, nextId, sessions>>

(***************************************************************************)
(* C12: a /webhooks/* request whose secret matches in the header, in the   *)
(* query or in the path segment is not refused as unauthenticated; one     *)
(* with no matching secret is answered 401 and creates no message, no      *)
(* conversation and no dedupe key.                                         *)
(***************************************************************************)
C12_AnyOneMatch ==
  IsArrival /\ IsDelivery(Arrival) /\ HasSecret(Arrival) => Arrival.status # 401

C12_NoMatch ==
  IsArrival /\ IsDelivery(Arrival) /\ ~HasSecret(Arrival)
    => Rejected(Arrival, 401, "UNAUTHORIZED") /\ NothingCreated

C12_SecretDecides == [][C12_AnyOneMatch /\ C12_NoMatch]_vars

\* The part of C12 that does not depend on the order of the gate: without
\* a matching secret a request is turned away as it arrives -- by the
\* allowlist, the rate limit or the secret check -- and nothing is created.
SecretRequired ==
  [][/\ C12_AnyOneMatch
     /\ IsArrival /\ IsDelivery(Arrival) /\ ~HasSecret(Arrival)
          => /\ Arrival.pc = "done" /\ Arrival.status \in {401, 403, 429}
             /\ NothingCreated]_vars

(***************************************************************************)
(* C13: the webhook gate authenticates first: a request without a valid    *)
(* secret is answered 401 whatever its client ip and is not counted in the *)
(* rate-limit window of its ip, so that a delivery with the secret is      *)
(* answered 429 only when the deliveries with the secret from its ip in    *)
(* its window alone exceed the limit.                                      *)
(***************************************************************************)
C13_Uncounted ==
  IsArrival /\ IsDelivery(Arrival) /\ ~HasSecret(Arrival)
    => Rejected(Arrival, 401, "UNAUTHORIZED") /\ webhookRateState' = webhookRateState

C13_NotStarved ==
  IsArrival /\ IsDelivery(Arrival) /\ HasSecret(Arrival) /\ Arrival.status = 429
    => Cardinality({r \in InWindow(Arrival.in.ip, now) : HasSecret(reqs[r])})
         >= config.rateLimit

C13_AuthenticatesFirst == [][C13_Uncounted /\ C13_NotStarved]_vars

\* A delivery with the secret was answered 429 although it was the first
\* with the secret from its ip in its window.
Starved ==
  \E r \in DOMAIN reqs :
    /\ IsDelivery(reqs[r]) /\ HasSecret(reqs[r]) /\ reqs[r].status = 429
    /\ \A q \in InWindow(reqs[r].in.ip, reqs[r].at) : q < r => ~HasSecret(reqs[q])

(***************************************************************************)
(* C14: with a limit N > 0, a webhook request of an allowed ip is answered *)
(* 429 RATE_LIMITED exactly when N requests of its ip have already arrived *)
(* in its 60-second window; it is answered as it arrives, before its body  *)
(* is read, and nothing but the counter of its ip changes; so at most N    *)
(* requests per ip and window get past the limit, the counters of other    *)
(* ips are untouched, and the first request of a new window counts as 1.   *)
(***************************************************************************)
Limited(req) == IsDelivery(req) /\ config.rateLimit > 0 /\ IpAllowed(config, req.in.ip)

C14_Decision ==
  IsArrival /\ Limited(Arrival)
    => LET ip == Arrival.in.ip
           earlier == Cardinality(InWindow(ip, now))
       IN /\ Rejected(Arrival, 429, "RATE_LIMITED") <=> earlier >= config.rateLimit
          /\ Arrival.status = 429 => NothingCreated
          /\ webhookRateState'[ip].count = earlier + 1
          /\ webhookRateState'[ip].windowStart = (now \div 60000) * 60000
          /\ \A other \in DOMAIN webhookRateState \ {ip} :
               webhookRateState'[other] = webhookRateState[other]

\* In every window, at most N requests of one ip were not answered 429.
C14_AtMostN ==
  config.rateLimit > 0 =>
    \A r \in DOMAIN reqs :
      IsDelivery(reqs[r]) =>
        Cardinality({q \in InWindow(reqs[r].in.ip, reqs[r].at) : reqs[q].status # 429})
          <= config.rateLimit

IsDataUrl(dataUrl) == dataUrl \in {"data", "bigdata", "nodata"}

\* Buffer.byteLength(dataUrl, 'utf-8') > deps.config.MAX_DATAURL_BYTES
TooLarge(dataUrl) == dataUrl = "bigdata"

\* dbState.messages.findIndex((m) => m.id === messageId), counted from 1;
\* 0 when there is none
FindIndex(ms, messageId) ==
  IF \E i \in DOMAIN ms : ms[i].id = messageId
    THEN CHOOSE i \in DOMAIN ms :
           ms[i].id = messageId /\ \A j \in DOMAIN ms : ms[j].id = messageId => i <= j
    ELSE 0

\* array[idx] = m: past the end the array grows, and the elements between
\* are holes (NoMessage)
AssignAt(ms, idx, m) ==
  [i \in 1..(IF idx > Len(ms) THEN idx ELSE Len(ms)) |->
     IF i = idx THEN m ELSE IF i <= Len(ms) THEN ms[i] ELSE NoMessage]

\* dbState.messages[idx] = m
SetMessageAt(st, idx, m) ==
  [db |-> [st.db EXCEPT !.messages = AssignAt(@, idx, m)],
   saves |-> [i \in DOMAIN st.saves |->
     IF Queued(st.saves[i]) /\ st.saves[i].sharesMessages
       THEN [st.saves[i] EXCEPT !.snap.messages = AssignAt(@, idx, m)]
       ELSE st.saves[i]]]

\* POST /api/conversations with a conversationId, from the body on: the
\* existing conversation is returned, or a new one is put in front and
\* persist() is awaited.
CreateConversation(id) ==
  /\ Len(reqs) < MaxGateReq
  /\ id \in ConversationIds
  /\ LET req == [NewRequest("create", [NoInput EXCEPT !.conversationId = id])
                   EXCEPT !.at = now]
         conversation == NewConversation(id, parseWkConversationId(id).peerId, now)
         st == Persist(AssignConversations(Store, <<conversation>> \o dbState.conversations),
                       now)
     IN IF HasConversation(dbState, id)
          THEN /\ reqs' = Append(reqs, Answer(req, 200, ""))
               /\ UNCHANGED <<dbState, saves>>
          ELSE /\ reqs' = Append(reqs, [req EXCEPT !.pc = "persist", !.job = AwaitedSave(st)])
               /\ dbState' = st.db
               /\ saves' = st.saves
  /\ UNCHANGED <<now, config, hook, disk, wfs, sse, nextId, sessions, webhookRateState>>

CreatePersisted(r) ==
  /\ r \in DOMAIN reqs
  /\ reqs[r].route = "create"
  /\ reqs[r].pc = "persist"
  /\ SaveSettled(reqs[r].job)
  /\ IF saves[reqs[r].job].stage = "failed"
       THEN /\ reqs' = Respond(r, 500, FALSE)
            /\ UNCHANGED sse
       ELSE /\ sse' = EmitConversationChanged(sse, reqs[r].in.conversationId, "created")
            /\ reqs' = Respond(r, 200, FALSE)
  /\ UNCHANGED <<now, config, hook, dbState, saves, disk, wfs, nextId, sessions, webhookRateState>>

\* POST /api/conversations/:id/messages with an image or a file, from the
\* body to `await persist()`.
SendMedia(id, kind, dataUrl) ==
  /\ Len(reqs) < MaxGateReq
  /\ id \in ConversationIds
  /\ kind \in {"image", "file"}
  /\ LET message == OutboundMessage(nextId, id, "human", kind, "", dataUrl, now)
         s1 == PushMessage(Store, message)
         s2 == AssignConversations(s1, TouchConversations(s1.db.conversations, message, now))
         st == Persist(s2, now)
         req == [NewRequest("send", [NoInput EXCEPT !.conversationId = id,
                                                    !.content = dataUrl])
                   EXCEPT !.at = now]
     IN IF TooLarge(dataUrl)
          THEN /\ reqs' = Append(reqs, Answer(req, 400, "DATAURL_TOO_LARGE"))
               /\ UNCHANGED <<dbState, saves, nextId>>
          ELSE /\ dbState' = st.db
               /\ saves' = st.saves
               /\ nextId' = nextId + 1
               /\ reqs' = Append(reqs, [req EXCEPT !.pc = "persist", !.job = AwaitedSave(st),
                                                   !.msg = message])
  /\ UNCHANGED <<now, config, hook, disk, wfs, sse, sessions, webhookRateState>>

\* extractHydrateParamsFromRaw(msg.raw) finds a cdnUrl and an aeskey: the
\* payloads of the model carry both; a message loaded from db.json has no
\* raw.
HasHydrateParams(raw) == raw # ""

\* HydrateStart for a handler that checks its configuration first.
HydrateStart_ConfigFirst(req, db, cfg) ==
  LET idx == FindIndex(db.messages, req.in.messageId)
      msg == db.messages[idx]
  IN IF idx = 0 THEN Answer(req, 404, "NOT_FOUND")
     ELSE IF msg.kind \notin {"image", "file"} THEN Answer(req, 400, "BAD_REQUEST")
     ELSE IF ~cfg.catalog THEN Answer(req, 503, "WKTEAM_CATALOG_UNAVAILABLE")
     ELSE IF ~cfg.upstream THEN Answer(req, 503, "UPSTREAM_NOT_CONFIGURED")
     ELSE IF IsDataUrl(msg.dataUrl) THEN [Answer(req, 200, "") EXCEPT !.msg = msg]
     ELSE [req EXCEPT !.pc = "fetch", !.idx = idx, !.msg = msg,
                      !.calls = Fetch(@, "cdnDownFile", <<"cdnUrl">>)]

\* POST /api/messages/:id/hydrate up to its first await: the answer, or
\* the request with the index it found, awaiting the download.
HydrateStart(req, db, cfg) ==
  LET idx == FindIndex(db.messages, req.in.messageId)
      msg == db.messages[idx]
  IN IF idx = 0 THEN Answer(req, 404, "NOT_FOUND")
     ELSE IF msg.kind \notin {"image", "file"} THEN Answer(req, 400, "BAD_REQUEST")
     ELSE IF IsDataUrl(msg.dataUrl) THEN [Answer(req, 200, "") EXCEPT !.msg = msg]
     ELSE IF ~parseWkConversationId(msg.conversationId).ok THEN Answer(req, 400, "BAD_REQUEST")
     ELSE IF ~HasHydrateParams(msg.raw) THEN Answer(req, 400, "BAD_REQUEST")
     ELSE IF ~cfg.catalog THEN Answer(req, 503, "WKTEAM_CATALOG_UNAVAILABLE")
     ELSE IF ~cfg.upstream THEN Answer(req, 503, "UPSTREAM_NOT_CONFIGURED")
     ELSE [req EXCEPT !.pc = "fetch", !.idx = idx, !.msg = msg,
                      !.calls = Fetch(@, "cdnDownFile", <<"cdnUrl">>)]

Hydrate(messageId) ==
  /\ Len(reqs) < MaxGateReq
  /\ reqs' = Append(reqs,
       HydrateStart([NewRequest("hydrate", [NoInput EXCEPT !.messageId = messageId])
                       EXCEPT !.at = now], dbState, config))
  /\ UNCHANGED <<now, config, hook, dbState, saves, disk, wfs, sse, nextId,
                 sessions, webhookRateState>>

\* The request of handler r comes back.
Back(r, outcome) == [reqs EXCEPT ![r].calls = CameBack(@, outcome)]

\* What the download comes back with: a payload within the cap, one beyond
\* it, an http error, an answer without base64, or nothing in time.
DownloadOutcomes == {"ok", "big", "http", "bad", "timeout"}

\* The download settles: the size check, messages[idx] = nextMessage with
\* the index found before the await, `await persist()`.
HydrateFetched(r, outcome) ==
  /\ r \in DOMAIN reqs
  /\ reqs[r].route = "hydrate"
  /\ reqs[r].pc = "fetch"
  /\ outcome \in DownloadOutcomes
  /\ LET nextMessage == [reqs[r].msg EXCEPT !.dataUrl = "data"]
         st == Persist(SetMessageAt(Store, reqs[r].idx, nextMessage), now)
     IN CASE outcome = "http" ->
               /\ reqs' = [Back(r, outcome) EXCEPT ![r] = Answer(@, 502, "UPSTREAM_HTTP_ERROR")]
               /\ UNCHANGED <<dbState, saves>>
          [] outcome = "bad" ->
               /\ reqs' = [Back(r, outcome) EXCEPT ![r] = Answer(@, 502, "UPSTREAM_BAD_RESPONSE")]
               /\ UNCHANGED <<dbState, saves>>
          [] outcome = "timeout" ->
               /\ reqs' = [Back(r, outcome) EXCEPT ![r] = Answer(@, 504, "UPSTREAM_TIMEOUT")]
               /\ UNCHANGED <<dbState, saves>>
          [] outcome = "big" ->
               /\ reqs' = [Back(r, outcome) EXCEPT ![r] = Answer(@, 400, "DATAURL_TOO_LARGE")]
               /\ UNCHANGED <<dbState, saves>>
          [] outcome = "ok" ->
               /\ dbState' = st.db
               /\ saves' = st.saves
               /\ reqs' = [Back(r, outcome) EXCEPT ![r].pc = "persist", ![r].job = AwaitedSave(st),
                                       ![r].msg = nextMessage]
  /\ UNCHANGED <<now, config, hook, disk, wfs, sse, nextId, sessions, webhookRateState>>

\* `await persist()` returns (message.updated, 200) or throws into the
\* catch of the download (502).
HydratePersisted(r) ==
  /\ r \in DOMAIN reqs
  /\ reqs[r].route = "hydrate"
  /\ reqs[r].pc = "persist"
  /\ SaveSettled(reqs[r].job)
  /\ IF saves[reqs[r].job].stage = "failed"
       THEN /\ reqs' = [reqs EXCEPT ![r] = Answer(@, 502, "UPSTREAM_NETWORK_ERROR")]
            /\ UNCHANGED sse
       ELSE /\ sse' = EmitEvent(sse, "message.updated",
                                   reqs[r].msg.conversationId, reqs[r].msg.id)
            /\ reqs' = Respond(r, 200, FALSE)
  /\ UNCHANGED <<now, config, hook, dbState, saves, disk, wfs, nextId, sessions, webhookRateState>>

\* POST /api/upstream/call up to its first await: 503 without catalog or
\* upstream; otherwise the body is read and, for an operationId of the
\* catalog, the call is issued.
UpstreamCall ==
  /\ Len(reqs) < MaxGateReq
  /\ LET req == [NewRequest("upstream", NoInput) EXCEPT !.at = now]
     IN reqs' = Append(reqs,
          IF ~config.catalog THEN Answer(req, 503, "WKTEAM_CATALOG_UNAVAILABLE")
          ELSE IF ~config.upstream THEN Answer(req, 503, "UPSTREAM_NOT_CONFIGURED")
          ELSE [req EXCEPT !.pc = "fetch", !.calls = Fetch(@, "call", <<"params">>)])
  /\ UNCHANGED <<now, config, hook, dbState, saves, disk, wfs, sse, nextId,
                 sessions, webhookRateState>>

\* The call settles: the answer is passed on, nothing is stored.
UpstreamCallSettled(r, outcome) ==
  /\ r \in DOMAIN reqs
  /\ reqs[r].route = "upstream"
  /\ reqs[r].pc = "fetch"
  /\ outcome \in UpstreamOutcomes
  /\ reqs' = [Back(r, outcome) EXCEPT ![r] =
       IF outcome = "ok" THEN Answer(@, 200, "")
       ELSE IF outcome = "http" THEN Answer(@, 502, "UPSTREAM_HTTP_ERROR")
       ELSE IF outcome = "timeout" THEN Answer(@, 504, "UPSTREAM_TIMEOUT")
       ELSE Answer(@, 502, "UPSTREAM_NETWORK_ERROR")]
  /\ UNCHANGED <<now, config, hook, dbState, saves, disk, wfs, sse, nextId,
                 sessions, webhookRateState>>

\* ---- POST /api/conversations/:conversationId/ai-reply ----
HistoryWindow == 20

\* Array.prototype.sort((a, b) => a.sentAt - b.sentAt): stable, by
\* insertion from the front.
RECURSIVE SortBySentAt(_)
SortBySentAt(ms) ==
  IF ms = <<>> THEN <<>>
  ELSE LET rest == SortBySentAt(SubSeq(ms, 1, Len(ms) - 1))
           m == ms[Len(ms)]
           k == Cardinality({i \in DOMAIN rest : rest[i].sentAt <= m.sentAt})
       IN SubSeq(rest, 1, k) \o <<m>> \o SubSeq(rest, k + 1, Len(rest))

\* slice(-n)
LastN(s, n) == SubSeq(s, IF Len(s) > n THEN Len(s) - n + 1 ELSE 1, Len(s))

\* messages.filter(conversationId).sort(sentAt).slice(-20)
History(db, conversationId) ==
  LastN(SortBySentAt(SelectSeq(db.messages, LAMBDA m : m.conversationId = conversationId)),
        HistoryWindow)

\* From the body to the completion call: the history of the conversation
\* is what the call carries.
AiReply(id, mode) ==
  /\ Len(reqs) < MaxGateReq
  /\ id \in ConversationIds
  /\ mode \in {"return_only", "persist"}
  /\ LET history == History(dbState, id)
         messages == [i \in DOMAIN history |->
                        IF history[i].kind = "text" THEN history[i].text
                        ELSE IF history[i].kind = "image" THEN "[image]" ELSE "[file]"]
         req == [NewRequest("ai-reply", [NoInput EXCEPT !.conversationId = id,
                                                        !.content = mode])
                   EXCEPT !.at = now]
     IN reqs' = Append(reqs, [req EXCEPT !.pc = "ai",
                                         !.calls = Fetch(@, "chatCompletions", messages)])
  /\ UNCHANGED <<now, config, hook, dbState, saves, disk, wfs, sse, nextId,
                 sessions, webhookRateState>>

\* chatCompletions settles: the reply is returned, or stored with the time
\* the handler read before the call; an Error is answered 504 or 502.
AiReplySettled(r, outcome) ==
  /\ r \in DOMAIN reqs
  /\ reqs[r].route = "ai-reply"
  /\ reqs[r].pc = "ai"
  /\ outcome \in AiOutcomes
  /\ LET id == reqs[r].in.conversationId
         aiMessage == OutboundMessage(nextId, id, "ai", "text", "reply", "", reqs[r].at)
         s1 == PushMessage(Store, aiMessage)
         s2 == AssignConversations(s1,
                 TouchConversations(s1.db.conversations, aiMessage, reqs[r].at))
         st == Persist(s2, now)
         code == IF AiErrorMessage(outcome) = "AI_TIMEOUT" THEN "AI_TIMEOUT"
                 ELSE "AI_UPSTREAM_ERROR"
     IN CASE outcome = "ok" /\ reqs[r].in.content = "return_only" ->
               /\ reqs' = [Back(r, outcome) EXCEPT ![r] = Answer(@, 200, "")]
               /\ UNCHANGED <<dbState, saves, nextId>>
          [] outcome = "ok" /\ reqs[r].in.content = "persist" ->
               /\ dbState' = st.db
               /\ saves' = st.saves
               /\ nextId' = nextId + 1
               /\ reqs' = [Back(r, outcome) EXCEPT ![r].pc = "persist", ![r].job = AwaitedSave(st),
                                       ![r].msg = aiMessage]
          [] outcome # "ok" ->
               /\ reqs' = [Back(r, outcome) EXCEPT ![r] =
                    Answer(@, IF code = "AI_TIMEOUT" THEN 504 ELSE 502, code)]
               /\ UNCHANGED <<dbState, saves, nextId>>
  /\ UNCHANGED <<now, config, hook, disk, wfs, sse, sessions, webhookRateState>>

\* `await persist()` returns (message.created, 200) or throws into the
\* catch of the completion call (502).
AiReplyPersisted(r) ==
  /\ r \in DOMAIN reqs
  /\ reqs[r].route = "ai-reply"
  /\ reqs[r].pc = "persist"
  /\ SaveSettled(reqs[r].job)
  /\ IF saves[reqs[r].job].stage = "failed"
       THEN /\ reqs' = [reqs EXCEPT ![r] = Answer(@, 502, "AI_UPSTREAM_ERROR")]
            /\ UNCHANGED sse
       ELSE /\ sse' = EmitEvent(sse, "message.created",
                                   reqs[r].msg.conversationId, reqs[r].msg.id)
            /\ reqs' = Respond(r, 200, FALSE)
  /\ UNCHANGED <<now, config, hook, dbState, saves, disk, wfs, nextId, sessions, webhookRateState>>

\* ---- the specification of the data routes ----
DataConfigs == [catalog : BOOLEAN, upstream : BOOLEAN, rateLimit : {0}, allowlist : {{}}]

\* The image of a peer, as an http(s) url, that the server holds when the
\* model starts.
FirstDelivery == CallbackInput(1, "p1", FALSE, "80002", "http")

\* The server after it took FirstDelivery: the store CallbackBody leaves,
\* its save completed.
Delivered ==
  LET inbound == CallbackInbound(FirstDelivery, 1, 1)
      st == AppendInbound(
              EnsureConversation([db |-> createEmptyDb(1), saves |-> <<>>],
                                 inbound.conversationId, FirstDelivery.peer, 1),
              CallbackDedupeKey(WId, FirstDelivery.newMsgId), inbound, 1)
  IN [db |-> st.db, saves |-> [i \in DOMAIN st.saves |-> [st.saves[i] EXCEPT !.stage = "done"]]]

\* The deliveries drawn: FirstDelivery, a file as a data: url within the
\* cap, and an image as one beyond it.
DataInputs ==
  {FirstDelivery,
   CallbackInput(2, "p1", FALSE, "60008", "data"),
   CallbackInput(2, "p1", FALSE, "60002", "bigdata")}

\* The server as it starts on an empty data directory, or later, holding
\* FirstDelivery.
DataInit ==
  /\ now = 1
  /\ config \in DataConfigs
  /\ \/ /\ dbState = createEmptyDb(now)
        /\ saves = <<>>
        /\ disk = [canon |-> AbsentFile, tmp |-> AbsentFile]
        /\ nextId = 1
     \/ /\ dbState = Delivered.db
        /\ saves = Delivered.saves
        /\ disk = [canon |-> JsonStringify(Delivered.db), tmp |-> AbsentFile]
        /\ nextId = 2
  /\ reqs = <<>>
  /\ wfs = <<>>
  /\ sse = NoStreams
  /\ sessions = {}
  /\ webhookRateState = <<>>
  /\ hook = NotMounted

DataNext ==
  \/ \E input \in DataInputs :
       WebhookArrive("ip1", [header |-> WebhookSecret, query |-> "", path |-> ""], input)
  \/ \E id \in ConversationIds :
       \/ CreateConversation(id)
       \/ DeleteConversation(id)
       \/ \E dataUrl \in {"data", "bigdata"} : SendMedia(id, "image", dataUrl)
  \/ \E messageId \in 1..MaxGateReq : Hydrate(messageId)
  \/ UpstreamCall
  \/ \E r \in 1..MaxGateReq :
       \/ CallbackBody(r) \/ CallbackPersisted(r)
       \/ \E outcome \in UpstreamOutcomes : UpstreamCallSettled(r, outcome)
       \/ CreatePersisted(r)
       \/ DeletePersisted(r)
       \/ SendPersisted(r)
       \/ \E outcome \in DownloadOutcomes : HydrateFetched(r, outcome)
       \/ HydratePersisted(r)
  \/ \E i \in 1..MaxSaves : SaveBegin(i) \/ SaveWritten(i) \/ SaveRenamed(i)

DataSpec == DataInit /\ [][DataNext]_vars

\* ---- the server without its catalog ----
\* loadWkteamCatalogMap threw: wkteamCatalog is null.  db.json has the
\* automation switch on.
CatalogInit ==
  /\ now = 1
  /\ config \in [catalog : {FALSE}, upstream : BOOLEAN, rateLimit : {0}, allowlist : {{}}]
  /\ disk = [canon |-> JsonStringify([createEmptyDb(0) EXCEPT !.automationEnabled = TRUE]),
             tmp |-> AbsentFile]
  /\ dbState = loadOrInit(disk.canon, now)
  /\ saves = <<>>
  /\ reqs = <<>>
  /\ wfs = <<>>
  /\ sse = NoStreams
  /\ nextId = 1
  /\ sessions = {}
  /\ webhookRateState = <<>>
  /\ hook = NotMounted

\* The deliveries a workflow follows: text, an image and a file.
CatalogInputs ==
  {input \in CallbackInputs : ~input.self /\ input.newMsgId = 1 /\ input.messageType # "10000"}

\* No relay and no download is ever issued, so the steps that settle one
\* are not steps of this server.
CatalogNext ==
  \/ \E input \in CatalogInputs : CallbackArrive(input)
  \/ \E id \in ConversationIds : SendBody(id)
  \/ \E messageId \in 1..MaxGateReq : Hydrate(messageId)
  \/ UpstreamCall
  \/ \E r \in 1..MaxGateReq :
       CallbackBody(r) \/ CallbackPersisted(r) \/ SendPersisted(r)
  \/ \E w \in 1..MaxReq :
       \/ WorkflowStart(w)
       \/ \E outcome \in AiOutcomes : WorkflowAiDone(w, outcome)
       \/ WorkflowPersisted(w)
  \/ \E i \in 1..MaxSaves : SaveBegin(i) \/ SaveWritten(i) \/ SaveRenamed(i)

CatalogSpec == CatalogInit /\ [][CatalogNext]_vars

\* ---- the workflows and the calls they issue ----
\* Catalog and upstream are available, the automation switch is on and
\* every save succeeds.
RelayInit ==
  /\ now = 1
  /\ config = [catalog |-> TRUE, upstream |-> TRUE, rateLimit |-> 0, allowlist |-> {}]
  /\ disk = [canon |-> JsonStringify([createEmptyDb(0) EXCEPT !.automationEnabled = TRUE]),
             tmp |-> AbsentFile]
  /\ dbState = loadOrInit(disk.canon, now)
  /\ saves = <<>>
  /\ reqs = <<>>
  /\ wfs = <<>>
  /\ sse = NoStreams
  /\ nextId = 1
  /\ sessions = {}
  /\ webhookRateState = <<>>
  /\ hook = NotMounted

\* Two texts of one peer, and an image and a file of each shape: an
\* http(s) url, a data: url, a data: url without base64 text, neither.
RelayInputs ==
  {CallbackInput(1, "p1", FALSE, "60001", "hello"),
   CallbackInput(2, "p1", FALSE, "60001", "again")}
  \cup {CallbackInput(2, "p1", FALSE, "60002", c) : c \in {"http", "data"}}
  \cup {CallbackInput(2, "p1", FALSE, "60008", c) : c \in {"http", "data", "nodata", ""}}

RelayNext ==
  \/ \E input \in RelayInputs : CallbackArrive(input)
  \/ SendBody(WkConversationId(WId, "u", "p1"))
  \/ /\ Len(reqs) < MaxReq
     /\ \/ \E mode \in {"return_only", "persist"} :
             AiReply(WkConversationId(WId, "u", "p1"), mode)
        \/ \E messageId \in 1..MaxGateReq : Hydrate(messageId)
        \/ UpstreamCall
  \/ \E r \in 1..MaxReq :
       \/ CallbackBody(r) \/ CallbackPersisted(r) \/ SendPersisted(r)
       \/ \E outcome \in AiOutcomes : AiReplySettled(r, outcome)
       \/ AiReplyPersisted(r)
       \/ \E outcome \in DownloadOutcomes : HydrateFetched(r, outcome)
       \/ HydratePersisted(r)
       \/ \E outcome \in UpstreamOutcomes : UpstreamCallSettled(r, outcome)
  \/ \E w \in 1..MaxReq :
       \/ WorkflowStart(w)
       \/ \E outcome \in AiOutcomes : WorkflowAiDone(w, outcome)
       \/ \E outcome \in UpstreamOutcomes :
            WorkflowUploadDone(w, outcome) \/ WorkflowRelayDone(w, outcome)
       \/ WorkflowPersisted(w)
  \/ \E i \in 1..MaxSaves : SaveBegin(i) \/ SaveWritten(i) \/ SaveRenamed(i)

RelaySpec == RelayInit /\ [][RelayNext]_vars

\* ---- the media workflows with saves that may fail ----
\* Image and file deliveries of one peer on the server of RelayInit; every
\* save may be rejected by the disk.
MediaInputs ==
  {CallbackInput(1, "p1", FALSE, "60002", c) : c \in {"http", "data"}}
  \cup {CallbackInput(1, "p1", FALSE, "60008", c) : c \in {"http", "data", "nodata", ""}}

MediaNext ==
  \/ \E input \in MediaInputs : CallbackArrive(input)
  \/ \E r \in 1..MaxReq : CallbackBody(r) \/ CallbackPersisted(r)
  \/ \E w \in 1..MaxReq :
       \/ WorkflowStart(w)
       \/ \E outcome \in UpstreamOutcomes :
            WorkflowUploadDone(w, outcome) \/ WorkflowRelayDone(w, outcome)
       \/ WorkflowPersisted(w)
  \/ \E i \in 1..MaxSaves : SaveBegin(i) \/ SaveWritten(i) \/ SaveRenamed(i) \/ SaveFails(i)

MediaSpec == RelayInit /\ [][MediaNext]_vars

\* ---- a server whose saves never fail, under fair scheduling ----
\* The requests of Spec arrive when they like; the server's own steps
\* (ready callbacks, file operations and upstream calls that settle) are
\* taken as long as one is ready, and no file operation rejects.
DrainArrivals ==
  \/ \E input \in CallbackInputs : CallbackArrive(input)
  \/ \E input \in MessagesInputs : MessagesBody(input)
  \/ \E id \in ConversationIds : DeleteConversation(id) \/ SendBody(id)
  \/ \E enabled \in BOOLEAN : AutomationStatusBody(enabled)

DrainProgress ==
  \/ \E i \in 1..MaxSaves : SaveBegin(i) \/ SaveWritten(i) \/ SaveRenamed(i)
  \/ \E r \in 1..MaxReq :
       \/ CallbackBody(r) \/ CallbackPersisted(r)
       \/ MessagesPersisted(r)
       \/ DeletePersisted(r)
       \/ AutomationStatusPersisted(r)
       \/ SendPersisted(r)
  \/ \E w \in 1..MaxReq :
       \/ WorkflowStart(w)
       \/ \E outcome \in AiOutcomes : WorkflowAiDone(w, outcome)
       \/ \E outcome \in UpstreamOutcomes :
            WorkflowUploadDone(w, outcome) \/ WorkflowRelayDone(w, outcome)
       \/ WorkflowPersisted(w)

DrainNext == DrainArrivals \/ DrainProgress

DrainSpec == Init /\ [][DrainNext]_vars /\ WF_vars(DrainProgress)

\* ---- deletion beside another conversation ----
\* The server holds the conversation of peer p2 with one text message, its
\* save completed; automation is off.  Peer p1 and peer p2 deliver texts
\* and the conversation of p1 is deleted; saves may fail.
FrameStore ==
  LET delivery == CallbackInput(1, "p2", FALSE, "60001", "hello")
      inbound == CallbackInbound(delivery, 1, 1)
      st == AppendInbound(
              EnsureConversation([db |-> createEmptyDb(1), saves |-> <<>>],
                                 inbound.conversationId, delivery.peer, 1),
              CallbackDedupeKey(WId, delivery.newMsgId), inbound, 1)
  IN [db |-> st.db, saves |-> [i \in DOMAIN st.saves |-> [st.saves[i] EXCEPT !.stage = "done"]]]

FrameInit ==
  /\ now = 1
  /\ config = [catalog |-> TRUE, upstream |-> TRUE, rateLimit |-> 0, allowlist |-> {}]
  /\ dbState = FrameStore.db
  /\ saves = FrameStore.saves
  /\ disk = [canon |-> JsonStringify(FrameStore.db), tmp |-> AbsentFile]
  /\ reqs = <<>>
  /\ wfs = <<>>
  /\ sse = NoStreams
  /\ nextId = 2
  /\ sessions = {}
  /\ webhookRateState = <<>>
  /\ hook = NotMounted

FrameNext ==
  \/ \E p \in {"p1", "p2"} : CallbackArrive(CallbackInput(2, p, FALSE, "60001", "again"))
  \/ \E r \in 1..MaxReq : CallbackBody(r) \/ CallbackPersisted(r) \/ DeletePersisted(r)
  \/ \E id \in ConversationIds : DeleteConversation(id)
  \/ \E i \in 1..MaxSaves : SaveBegin(i) \/ SaveWritten(i) \/ SaveRenamed(i) \/ SaveFails(i)

FrameSpec == FrameInit /\ [][FrameNext]_vars

\* ---- deliveries with a provider timestamp ----
\* No timestamp; seconds, whole and with a fraction (one below a
\* millisecond); the largest value below 10^12 and 10^12 itself;
\* milliseconds, whole and with a fraction; zero; a negative value; a
\* number beyond the doubles (JSON.parse reads it as Infinity); and strings:
\* numerals, the empty string, Infinity, and a word.
Timestamps ==
  {Undefined,
   Finite(FALSE, 1700, 0, 0), Finite(FALSE, 1700, 0, 250000), Finite(FALSE, 1700, 0, 500),
   Finite(FALSE, Limb - 1, Limb - 1, Limb - 1), Finite(FALSE, Limb, 0, 0),
   Finite(FALSE, 1700000, 0, 0), Finite(FALSE, 1700000, 0, 700000),
   Finite(FALSE, 0, 0, 0), Finite(TRUE, 0, 1, 500000),
   NotFinite("Infinity")}
  \cup {StringOf(text) : text \in {"1700000000", "1700000000.25", "1700000000000",
                                   "", "Infinity", "abc"}}

\* Texts the account itself sent (no workflow follows), one per timestamp.
StampInputs ==
  {[CallbackInput(n, "p1", TRUE, "80001", "hello") EXCEPT !.timestamp = t] :
     n \in 1..MaxMsgId, t \in Timestamps}

StampNext ==
  \/ \E input \in StampInputs : CallbackArrive(input)
  \/ \E r \in 1..MaxReq : CallbackBody(r) \/ CallbackPersisted(r)
  \/ \E i \in 1..MaxSaves : SaveBegin(i) \/ SaveWritten(i) \/ SaveRenamed(i)

StampSpec == AuthInit /\ [][StampNext]_vars

\* ---- the UI's hook, beside an idle server ----
\* A connecting EventSource opens or fails.
Connection ==
  \E e \in DOMAIN hook.es : hook.es[e] = "connecting" /\ (EsOpen(e) \/ EsError(e))

HookNext ==
  \/ \E c \in Clients \cup {NoClient} : Render(c)
  \/ Unmount
  \/ \E e \in 1..MaxEs : EsOpen(e) \/ EsError(e)
  \/ \E t \in 1..MaxEs : PollTick(t)
  \/ ClockAdvance

\* The browser settles every connection attempt: it opens or it fails.
HookSpec == AuthInit /\ [][HookNext]_vars /\ WF_vars(Connection)

\* ---- the event streams ----
\* Streams are opened, closed and destroyed while one text delivery is
\* stored and followed by its workflow; the server has neither catalog nor
\* upstream, so the workflow publishes the AI message and records its run.
SseInit == CatalogInit /\ ~config.upstream

SseInputs == {CallbackInput(1, "p1", FALSE, "60001", "hello")}

SseNext ==
  \/ ApiRequest("/api/events", [authorization |-> Bearer(BffApiToken), cookie |-> NoId,
                                token |-> ""], FALSE)
  \/ \E input \in SseInputs : CallbackArrive(input)
  \/ \E r \in 1..MaxGateReq :
       \/ StreamClosed(r) \/ StreamBreaks(r)
       \/ CallbackBody(r) \/ CallbackPersisted(r)
  \/ \E w \in 1..MaxReq :
       \/ WorkflowStart(w)
       \/ WorkflowAiDone(w, "ok")
       \/ WorkflowPersisted(w)
  \/ \E i \in 1..MaxSaves : SaveBegin(i) \/ SaveWritten(i) \/ SaveRenamed(i)

SseSpec == SseInit /\ [][SseNext]_vars

\* The server holding FirstDelivery is a state the fresh server reaches.
DeliveredFromFresh ==
  /\ dbState = Delivered.db
  /\ saves = Delivered.saves
  /\ disk.canon = JsonStringify(Delivered.db)
  /\ Len(reqs) = 1 /\ reqs[1].pc = "done"

(***************************************************************************)
(* C15: no two conversations share an id: a delivery whose conversation    *)
(* exists reuses it, and POST /api/conversations with the id of an         *)
(* existing conversation returns that conversation and creates none.       *)
(***************************************************************************)
C15_UniqueIds ==
  \A i, j \in DOMAIN dbState.conversations :
    dbState.conversations[i].id = dbState.conversations[j].id => i = j

\* Request r passes from its body to its `await persist()` in this step.
Stores(r) ==
  /\ r \in DOMAIN reqs' /\ reqs'[r].pc = "persist"
  /\ IF r \in DOMAIN reqs THEN reqs[r].pc = "body" ELSE TRUE

C15_Reuse ==
  \A r \in DOMAIN reqs' :
    /\ Stores(r) /\ reqs'[r].route = "callback"
         => /\ reqs'[r].msg.conversationId = WkConversationId(WId, "u", reqs'[r].in.peer)
            /\ HasConversation(dbState', reqs'[r].msg.conversationId)
            /\ HasConversation(dbState, reqs'[r].msg.conversationId)
                 => Len(dbState'.conversations) = Len(dbState.conversations)
    /\ IsArrival /\ r = Len(reqs') /\ reqs'[r].route = "create"
         /\ HasConversation(dbState, reqs'[r].in.conversationId)
         => /\ reqs'[r].pc = "done" /\ reqs'[r].status = 200
            /\ UNCHANGED <<dbState, saves>>

MessagesOf(conversationId) ==
  {i \in DOMAIN dbState.messages : dbState.messages[i].conversationId = conversationId}

(***************************************************************************)
(* C16: in every state, a conversation's lastMessageId is null only if no  *)
(* stored message belongs to the conversation, and otherwise it is the id  *)
(* of a stored message of that conversation.                               *)
(***************************************************************************)
C16_LastMessageId ==
  \A c \in DOMAIN dbState.conversations :
    LET conv == dbState.conversations[c]
    IN IF conv.lastMessageId = NoId
         THEN MessagesOf(conv.id) = {}
         ELSE \E i \in MessagesOf(conv.id) : dbState.messages[i].id = conv.lastMessageId

\* A hydration wrote its message back at the index it had found before
\* the download, into a conversation that was deleted and created again
\* in between: the conversation has a message and no lastMessageId.
StaleWriteBack ==
  \E c \in DOMAIN dbState.conversations, r \in DOMAIN reqs :
    /\ reqs[r].route = "hydrate" /\ reqs[r].pc \in {"persist", "done"}
    /\ reqs[r].status \in {0, 200} /\ reqs[r].idx # 0
    /\ \E d \in DOMAIN reqs : reqs[d].route = "delete" /\ reqs[d].job # 0
    /\ \A i \in DOMAIN dbState.messages : dbState.messages[i].source = "webhook"
    /\ dbState.conversations[c].lastMessageId = NoId
    /\ \E i \in MessagesOf(dbState.conversations[c].id) :
         dbState.messages[i].id = reqs[r].in.messageId

(***************************************************************************)
(* C17: in every state, the conversationId of every stored message is the  *)
(* id of an existing conversation.                                         *)
(***************************************************************************)
C17_MessageHasConversation ==
  \A i \in DOMAIN dbState.messages :
    HasConversation(dbState, dbState.messages[i].conversationId)

\* A workflow appended its reply to a conversation that was deleted while
\* the workflow was in flight.
ReplyToDeleted ==
  \E w \in DOMAIN wfs, i \in DOMAIN dbState.messages :
    /\ wfs[w].out # NoId /\ dbState.messages[i].id = wfs[w].out
    /\ ~HasConversation(dbState, wfs[w].conversationId)

(***************************************************************************)
(* C19: a hydrate request for a message whose dataUrl already starts with  *)
(* 'data:' is answered 200 with the stored message as it arrives: no       *)
(* download is issued, no save is queued, no event is published and the    *)
(* stored data is unchanged -- whatever the configuration of the catalog   *)
(* and of the upstream.                                                    *)
(***************************************************************************)
\* The stored image and file messages with this id, all of them embedded.
Embedded(messageId) ==
  LET found == {i \in DOMAIN dbState.messages : dbState.messages[i].id = messageId}
  IN /\ found # {}
     /\ \A i \in found :
          /\ dbState.messages[i].kind \in {"image", "file"}
          /\ dbState.messages[i].dataUrl \in {"data", "bigdata"}

C19_NoOp ==
  IsArrival /\ Arrival.route = "hydrate" /\ Embedded(Arrival.in.messageId)
    => /\ Arrival.pc = "done" /\ Arrival.status = 200
       /\ \E i \in DOMAIN dbState.messages : Arrival.msg = dbState.messages[i]
       /\ UNCHANGED ServerState

C19_HydrateEmbedded == [][C19_NoOp]_vars

\* With no catalog, a file that was delivered as a data: url was hydrated
\* and returned; nothing was published for it but its creation.
C19_Witness ==
  /\ ~config.catalog
  /\ \E r \in DOMAIN reqs :
       /\ reqs[r].route = "hydrate" /\ reqs[r].pc = "done" /\ reqs[r].status = 200
       /\ reqs[r].msg.kind = "file" /\ reqs[r].msg.dataUrl = "data"
       /\ reqs[r].job = 0 /\ reqs[r].idx = 0
  /\ \A e \in DOMAIN sse.events : sse.events[e].event # "message.updated"

(***************************************************************************)
(* C20: no stored image or file message has a dataUrl larger than          *)
(* MAX_DATAURL_BYTES, whether it came in a send request, as inline content *)
(* of a webhook delivery or from a hydrate download.                       *)
(***************************************************************************)
C20_WithinCap ==
  \A i \in DOMAIN dbState.messages : dbState.messages[i].dataUrl # "bigdata"

\* The part of C20 that holds: a send request and a download over the cap
\* are answered 400 DATAURL_TOO_LARGE and store nothing, so every stored
\* message over the cap came from a webhook delivery.
CapOnSendAndHydrate ==
  /\ [](\A i \in DOMAIN dbState.messages :
          dbState.messages[i].dataUrl = "bigdata" => dbState.messages[i].source = "webhook")
  /\ [][/\ IsArrival /\ Arrival.route = "send" /\ Arrival.in.content = "bigdata"
             => Rejected(Arrival, 400, "DATAURL_TOO_LARGE") /\ UNCHANGED ServerState
        /\ \A r \in DOMAIN reqs :
             reqs[r].pc = "fetch" /\ reqs'[r].pc # "fetch"
               => IF reqs'[r].pc = "persist"
                    THEN reqs'[r].msg.dataUrl = "data"
                    ELSE UNCHANGED <<dbState, saves>>]_vars

(***************************************************************************)
(* C18: without the catalog the server runs, and each capability that      *)
(* needs it reports WKTEAM_CATALOG_UNAVAILABLE: POST /api/upstream/call    *)
(* and the hydration of a message that is not yet hydrated are answered    *)
(* 503 with that code, and every relay that was due -- after a webhook     *)
(* delivery, after a text a human sent to a wk conversation -- leaves a    *)
(* failed AutomationRun with that code.                                    *)
(***************************************************************************)
\* A failed run with the catalog code is recorded for this input message.
CatalogRun(inputMessageId) ==
  \E i \in DOMAIN dbState.automationRuns :
    /\ dbState.automationRuns[i].inputMessageId = inputMessageId
    /\ dbState.automationRuns[i].status = "failed"
    /\ dbState.automationRuns[i].code = "WKTEAM_CATALOG_UNAVAILABLE"

\* The workflow has come to the point where it relays: it holds a media
\* delivery, or the reply of the AI is stored.
RelayDue(wf) == wf.inbound.kind \in {"image", "file"} \/ wf.out # NoId

C18_Proxy ==
  \A r \in DOMAIN reqs :
    reqs[r].route = "upstream" => Rejected(reqs[r], 503, "WKTEAM_CATALOG_UNAVAILABLE")

C18_Hydrate ==
  /\ IsArrival /\ Arrival.route = "hydrate"
  /\ \E i \in DOMAIN dbState.messages :
       /\ dbState.messages[i].id = Arrival.in.messageId
       /\ dbState.messages[i].kind \in {"image", "file"}
       /\ dbState.messages[i].dataUrl \notin {"data", "bigdata"}
  => Rejected(Arrival, 503, "WKTEAM_CATALOG_UNAVAILABLE")

C18_WebhookRelay ==
  \A w \in DOMAIN wfs :
    /\ wfs[w].flow = "callback" /\ wfs[w].pc = "done" /\ wfs[w].settled = "resolved"
    /\ RelayDue(wfs[w])
    => CatalogRun(wfs[w].inbound.id)

C18_HumanRelay ==
  \A r \in DOMAIN reqs :
    /\ reqs[r].route = "send" /\ reqs[r].pc = "done" /\ reqs[r].status = 200
    /\ reqs[r].msg.kind = "text" /\ reqs[r].msg.conversationId.wk
    => reqs[r].wf # 0 \/ CatalogRun(reqs[r].msg.id)

C18_CatalogUnavailable ==
  /\ [](~config.catalog => C18_Proxy /\ C18_WebhookRelay /\ C18_HumanRelay)
  /\ [][~config.catalog => C18_Hydrate]_vars

\* The part of C18 that holds: the proxy, the hydration and the relays of
\* the webhook workflows.
CatalogReported ==
  /\ [](~config.catalog => C18_Proxy /\ C18_WebhookRelay)
  /\ [][~config.catalog => C18_Hydrate]_vars

\* Each of them happened: a proxy call and a hydration answered 503, and
\* a webhook workflow that recorded the failed run.
CatalogReportedWitness ==
  /\ \E r \in DOMAIN reqs : reqs[r].route = "upstream" /\ reqs[r].status = 503
  /\ \E r \in DOMAIN reqs :
       reqs[r].route = "hydrate" /\ Rejected(reqs[r], 503, "WKTEAM_CATALOG_UNAVAILABLE")
  /\ \E w \in DOMAIN wfs : wfs[w].pc = "done" /\ CatalogRun(wfs[w].inbound.id)

\* A text a human sent to a wk conversation was stored and answered 200,
\* and neither a relay nor a run exists for it.
SilentlySkipped ==
  \E r \in DOMAIN reqs :
    /\ reqs[r].route = "send" /\ reqs[r].pc = "done" /\ reqs[r].status = 200
    /\ reqs[r].wf = 0 /\ wfs = <<>> /\ dbState.automationRuns = <<>>

(***************************************************************************)
(* C21: publishing an event writes it to every subscribed stream; a stream *)
(* whose write throws is removed from the subscriber set and gets no later *)
(* event; no error reaches the publisher, which goes on as it does without *)
(* subscribers; every other subscriber receives the event.                 *)
(***************************************************************************)
Publishes == Len(sse'.events) > Len(sse.events)

NewEvents == (Len(sse.events) + 1)..Len(sse'.events)

\* Every subscribed stream is written to; the ones that do not throw
\* receive the event, the ones that throw leave the set.
C21_Delivery ==
  Publishes =>
    /\ \A e \in NewEvents :
         /\ sse'.events[e].to \cup sse'.events[e].threw = sse.clients
         /\ \A s \in sse.clients : s \notin sse.broken => s \in sse'.events[e].to
    /\ \A s \in sse.clients : s \in sse.broken => s \notin sse'.clients
    /\ \A s \in sse.clients : s \notin sse.broken => s \in sse'.clients

\* A stream that threw is never written to again.
C21_NoLaterEvent ==
  \A i, j \in DOMAIN sse.events :
    i < j => sse.events[i].threw \cap (sse.events[j].to \cup sse.events[j].threw) = {}

\* The publisher goes on: the handler answers 200 and enqueues the
\* workflow, the workflow goes on to its relay step and records the run
\* of that step.
C21_PublisherContinues ==
  Publishes =>
    /\ \A r \in DOMAIN reqs :
         reqs[r].pc = "persist" /\ reqs'[r].pc # "persist"
           => reqs'[r].pc = "done" /\ reqs'[r].status = 200 /\ reqs'[r].wf # 0
    /\ \A w \in DOMAIN wfs :
         wfs[w].pc = "persistMsg" /\ wfs'[w].pc # "persistMsg"
           => /\ wfs'[w].pc = "persistRun"
              /\ Last(dbState'.automationRuns).code = "WKTEAM_CATALOG_UNAVAILABLE"
              /\ Last(dbState'.automationRuns).outputMessageId = wfs[w].out

C21_Publish ==
  /\ []C21_NoLaterEvent
  /\ [][C21_Delivery /\ C21_PublisherContinues]_vars

\* With two streams subscribed the inbound message was published, one
\* write threw and the other stream received the event; the workflow then
\* published its reply to the other stream alone and ended with its run.
C21_Witness ==
  /\ Len(sse.events) = 2
  /\ sse.events[1].threw # {} /\ sse.events[1].to # {}
  /\ sse.events[2].threw = {} /\ sse.events[2].to = sse.events[1].to
  /\ \E w \in DOMAIN wfs : wfs[w].pc = "done" /\ wfs[w].settled = "resolved"
  /\ Len(dbState.automationRuns) = 1

(***************************************************************************)
(* C22: there is no automatic retry.  One chatCompletions call issues      *)
(* exactly one HTTP request, and within one workflow, hydrate request or   *)
(* proxy request each external endpoint (completion, upload, send,         *)
(* download) is called at most once, whatever the outcome of the call.     *)
(***************************************************************************)
OncePerOperation(calls) ==
  \A i, j \in DOMAIN calls : calls[i].op = calls[j].op => i = j

Completions(calls) == {i \in DOMAIN calls : calls[i].op = "chatCompletions"}

\* The workflow or handler has called chatCompletions.
CalledCompletion(x) == x.pc \notin {"queued", "body"}

C22_OneRequestPerCompletion ==
  /\ \A w \in DOMAIN wfs :
       wfs[w].flow = "callback" /\ wfs[w].inbound.kind = "text" /\ CalledCompletion(wfs[w])
         => Cardinality(Completions(wfs[w].calls)) = 1
  /\ \A r \in DOMAIN reqs :
       reqs[r].route = "ai-reply" /\ CalledCompletion(reqs[r])
         => Cardinality(Completions(reqs[r].calls)) = 1

C22_NoRetry ==
  /\ C22_OneRequestPerCompletion
  /\ \A w \in DOMAIN wfs : OncePerOperation(wfs[w].calls)
  /\ \A r \in DOMAIN reqs : Len(reqs[r].calls) <= 1

\* An image workflow whose upload and send both failed ended after one
\* call of each, and a download that timed out was answered 504 after one
\* call.
C22_Witness ==
  /\ \E w \in DOMAIN wfs :
       /\ wfs[w].pc = "done" /\ Len(wfs[w].calls) = 2
       /\ wfs[w].reply = "http"
       /\ \E i \in DOMAIN dbState.automationRuns :
            /\ dbState.automationRuns[i].id = wfs[w].runId
            /\ dbState.automationRuns[i].status = "failed"
  /\ \E r \in DOMAIN reqs :
       reqs[r].route = "hydrate" /\ reqs[r].status = 504 /\ Len(reqs[r].calls) = 1

(***************************************************************************)
(* C23: the three failure kinds of the completion call stay apart in what  *)
(* the caller exposes, the error code of the ai-reply answer and of the    *)
(* AutomationRun: a timeout gives AI_TIMEOUT, a non-2xx answer gives       *)
(* AI_UPSTREAM_ERROR, a malformed or schema-invalid body gives             *)
(* AI_BAD_RESPONSE.                                                        *)
(***************************************************************************)
FailureKind(outcome) ==
  CASE outcome = "timeout" -> "AI_TIMEOUT"
    [] outcome = "http" -> "AI_UPSTREAM_ERROR"
    [] outcome \in {"bad", "malformed"} -> "AI_BAD_RESPONSE"
    [] OTHER -> ""

\* The code exposed for each completion call that came back with one of
\* `outcomes` is the code of its failure kind.
KindsKept(outcomes) ==
  /\ \A r \in DOMAIN reqs :
       /\ reqs[r].route = "ai-reply" /\ reqs[r].pc = "done"
       /\ reqs[r].calls[1].outcome \in outcomes
       => reqs[r].code = FailureKind(reqs[r].calls[1].outcome)
  /\ \A w \in DOMAIN wfs :
       /\ wfs[w].flow = "callback" /\ wfs[w].calls # <<>>
       /\ wfs[w].calls[1].op = "chatCompletions"
       /\ wfs[w].calls[1].outcome \in outcomes
       => \E i \in DOMAIN dbState.automationRuns :
            /\ dbState.automationRuns[i].id = wfs[w].runId
            /\ dbState.automationRuns[i].code = FailureKind(wfs[w].calls[1].outcome)

C23_FailureKinds == KindsKept({"timeout", "http", "bad", "malformed"})

\* The part of C23 that holds: timeouts and non-2xx answers stay apart.
TimeoutAndUpstreamKept == KindsKept({"timeout", "http"})

\* A body that failed the schema was answered 502 AI_UPSTREAM_ERROR, and one
\* was recorded as a run with the code AI_UPSTREAM_ERROR.
BadResponseAsUpstreamError ==
  /\ \E r \in DOMAIN reqs :
       /\ reqs[r].route = "ai-reply" /\ reqs[r].calls[1].outcome = "bad"
       /\ reqs[r].status = 502 /\ reqs[r].code = "AI_UPSTREAM_ERROR"
  /\ \E w \in DOMAIN wfs :
       /\ wfs[w].calls # <<>> /\ wfs[w].calls[1].outcome = "bad"
       /\ \E i \in DOMAIN dbState.automationRuns :
            /\ dbState.automationRuns[i].id = wfs[w].runId
            /\ dbState.automationRuns[i].code = "AI_UPSTREAM_ERROR"

(***************************************************************************)
(* C24: the AutomationRun log is append-only.  In every step of every      *)
(* operation, conversation deletion and later workflows included, the      *)
(* list of runs before the step is a prefix of the list after it: no run   *)
(* is removed and no field of a stored run changes.                        *)
(***************************************************************************)
C24_AppendOnly ==
  [][/\ Len(dbState.automationRuns) <= Len(dbState'.automationRuns)
     /\ \A i \in DOMAIN dbState.automationRuns :
          dbState'.automationRuns[i] = dbState.automationRuns[i]]_vars

\* A conversation was deleted, its run is still in the log, and a later
\* run was appended behind it.
C24_Witness ==
  /\ \E r \in DOMAIN reqs :
       /\ reqs[r].route = "delete" /\ reqs[r].pc = "done" /\ reqs[r].status = 200
       /\ ~HasConversation(dbState, reqs[r].in.conversationId)
       /\ dbState.automationRuns # <<>>
       /\ dbState.automationRuns[1].conversationId = reqs[r].in.conversationId
  /\ Len(dbState.automationRuns) = 2

(***************************************************************************)
(* C25: a failed relay records an error code that tells the failure        *)
(* classes apart.  In every workflow (webhook text, image, file, human-    *)
(* sent text) a non-2xx answer, a timeout and a network failure of the     *)
(* relay give three different codes, each different from the codes of the  *)
(* configuration errors.                                                   *)
(***************************************************************************)
SendOperations == {"sendText", "sendImage2", "sendFileBase64", "sendFile"}

ConfigurationCodes ==
  {"WKTEAM_CATALOG_UNAVAILABLE", "UPSTREAM_NOT_CONFIGURED", "UNKNOWN_OPERATION_ID",
   "BAD_CONVERSATION_ID"}

\* The relay call of workflow w came back failed; the run is recorded in
\* the same step.
FailedRelay(w) ==
  /\ wfs[w].calls # <<>>
  /\ Last(wfs[w].calls).op \in SendOperations
  /\ Last(wfs[w].calls).outcome \in {"http", "timeout", "network"}

RunCode(w) ==
  (CHOOSE run \in {dbState.automationRuns[i] : i \in DOMAIN dbState.automationRuns} :
     run.id = wfs[w].runId).code

\* Two workflows of the kinds in `flows` whose relays failed in different
\* ways recorded different codes, and none recorded a configuration code.
CodesApart(flows, outcomes) ==
  /\ \A a, b \in DOMAIN wfs :
       /\ FailedRelay(a) /\ FailedRelay(b)
       /\ wfs[a].flow \in flows /\ wfs[a].flow = wfs[b].flow
       /\ wfs[a].inbound.kind = wfs[b].inbound.kind
       /\ Last(wfs[a].calls).outcome \in outcomes
       /\ Last(wfs[b].calls).outcome \in outcomes
       /\ Last(wfs[a].calls).outcome # Last(wfs[b].calls).outcome
       => RunCode(a) # RunCode(b)
  /\ \A a \in DOMAIN wfs :
       FailedRelay(a) /\ wfs[a].flow \in flows => RunCode(a) \notin ConfigurationCodes

C25_FailureClasses == CodesApart({"callback", "human_send"}, {"http", "timeout", "network"})

\* The part of C25 that holds: the human-sent workflow keeps the three
\* classes apart, and the webhook workflows keep timeouts apart from the
\* other two.
HumanSendClasses ==
  /\ CodesApart({"human_send"}, {"http", "timeout", "network"})
  /\ CodesApart({"callback"}, {"http", "timeout"})
  /\ CodesApart({"callback"}, {"network", "timeout"})

\* Two text workflows, one relay answered non-2xx and one whose connection
\* failed, recorded the same code.
SameCodeForHttpAndNetwork ==
  \E a, b \in DOMAIN wfs :
    /\ FailedRelay(a) /\ FailedRelay(b)
    /\ Last(wfs[a].calls).outcome = "http" /\ Last(wfs[b].calls).outcome = "network"
    /\ RunCode(a) = "UPSTREAM_SEND_FAILED" /\ RunCode(b) = "UPSTREAM_SEND_FAILED"

(***************************************************************************)
(* C26: in the text workflow the messages passed to the completion client  *)
(* are the last N messages of the conversation, oldest first, and the      *)
(* triggering inbound message is the newest of them.                       *)
(***************************************************************************)
\* Workflow w issues its completion call in this step.
CallsCompletion(w) ==
  /\ w \in DOMAIN wfs
  /\ wfs[w].flow = "callback"
  /\ wfs[w].calls = <<>>
  /\ wfs'[w].calls # <<>>
  /\ wfs'[w].calls[1].op = "chatCompletions"

\* The texts of the last n messages of the conversation, oldest first.
Window(conversationId, n) ==
  LET ms == LastN(SortBySentAt(SelectSeq(dbState.messages,
                     LAMBDA m : m.conversationId = conversationId)), n)
  IN [i \in DOMAIN ms |-> ms[i].text]

C26_HistoryWindow ==
  [][\A w \in DOMAIN wfs :
       CallsCompletion(w) =>
         \E n \in 1..HistoryWindow :
           wfs'[w].calls[1].arg = Window(wfs[w].conversationId, n)]_vars

\* What the workflow passes: the text of the triggering message alone.
OnlyTheInbound ==
  [][\A w \in DOMAIN wfs :
       CallsCompletion(w) => wfs'[w].calls[1].arg = <<wfs[w].inbound.text>>]_vars

\* A completion call was issued with the text of the first delivery while
\* the conversation already held the second one.
NoHistoryPassed ==
  \E w \in DOMAIN wfs :
    /\ wfs[w].pc = "ai"
    /\ wfs[w].calls[1].arg = <<"hello">>
    /\ Window(wfs[w].conversationId, 2) = <<"hello", "again">>

(***************************************************************************)
(* C27: the text workflow calls the completion, then appends, persists     *)
(* and publishes the AI message, then calls the relay, then records the    *)
(* run.  The relay is never called before the save of the AI message has   *)
(* completed.  When the relay step fails (configuration error, HTTP error, *)
(* timeout) the AI message stays stored and the run is recorded failed     *)
(* with outputMessageId equal to the id of that message; when the          *)
(* completion fails no message is added and outputMessageId is null.       *)
(***************************************************************************)
TextWorkflow(w) == wfs[w].flow = "callback" /\ wfs[w].inbound.kind = "text"

RunsWithId(runId) ==
  {i \in DOMAIN dbState.automationRuns : dbState.automationRuns[i].id = runId}

\* The run this step appends.
NewRun == Last(dbState'.automationRuns)

AppendsRun == Len(dbState'.automationRuns) = Len(dbState.automationRuns) + 1

\* The relay is called: the completion came back before, the save of the
\* AI message is done, the message is published, no run is recorded yet.
C27_RelayAfterSave ==
  \A w \in DOMAIN wfs :
    /\ TextWorkflow(w)
    /\ Len(wfs'[w].calls) = Len(wfs[w].calls) + 1
    /\ Last(wfs'[w].calls).op = "sendText"
    => /\ Len(wfs[w].calls) = 1
       /\ wfs[w].calls[1].op = "chatCompletions" /\ wfs[w].calls[1].outcome = "ok"
       /\ wfs[w].pc = "persistMsg" /\ saves[wfs[w].job].stage = "done"
       /\ \E e \in DOMAIN sse'.events :
            sse'.events[e].event = "message.created" /\ sse'.events[e].messageId = wfs[w].out
       /\ RunsWithId(wfs[w].runId) = {}

\* The relay step fails in this step: the call comes back failed, or a
\* configuration check fails after the publish.
RelayStepFails(w) ==
  /\ TextWorkflow(w)
  /\ \/ /\ wfs[w].pc = "relay" /\ wfs'[w].pc # "relay"
        /\ Last(wfs'[w].calls).outcome \in {"http", "timeout", "network"}
     \/ /\ wfs[w].pc = "persistMsg" /\ wfs'[w].pc = "persistRun"
        /\ saves[wfs[w].job].stage = "done"

C27_RelayFailure ==
  \A w \in DOMAIN wfs :
    RelayStepFails(w) =>
      /\ dbState'.messages = dbState.messages
      /\ AppendsRun
      /\ NewRun.id = wfs[w].runId /\ NewRun.status = "failed"
      /\ NewRun.outputMessageId = wfs[w].out /\ wfs[w].out # NoId

C27_CompletionFailure ==
  \A w \in DOMAIN wfs :
    /\ TextWorkflow(w)
    /\ wfs[w].pc = "ai" /\ wfs'[w].pc # "ai"
    /\ wfs'[w].calls[1].outcome # "ok"
    => /\ dbState'.messages = dbState.messages
       /\ AppendsRun
       /\ NewRun.id = wfs[w].runId /\ NewRun.status = "failed"
       /\ NewRun.outputMessageId = NoId

\* The relay step of workflow w has failed.
RelayFailed(w) ==
  /\ TextWorkflow(w)
  /\ \/ FailedRelay(w)
     \/ \E i \in RunsWithId(wfs[w].runId) :
          dbState.automationRuns[i].code \in ConfigurationCodes

\* The run of a workflow whose relay step failed says failed and names the
\* AI message.
C27_RunNamesMessage ==
  \A w \in DOMAIN wfs :
    RelayFailed(w) =>
      \A i \in RunsWithId(wfs[w].runId) :
        /\ dbState.automationRuns[i].status = "failed"
        /\ dbState.automationRuns[i].outputMessageId = wfs[w].out

C27_TextWorkflow ==
  /\ []C27_RunNamesMessage
  /\ [][C27_RelayAfterSave /\ C27_RelayFailure /\ C27_CompletionFailure]_vars

\* The order of the steps, and what each failing step records.
TextWorkflowOrder ==
  [][C27_RelayAfterSave /\ C27_RelayFailure /\ C27_CompletionFailure]_vars

\* The relay of a text workflow timed out, the run naming the AI message
\* was recorded, its save failed, and the workflow recorded a second run
\* without the message.
RunWithoutMessage ==
  \E w \in DOMAIN wfs :
    /\ FailedRelay(w) /\ TextWorkflow(w)
    /\ \E i, j \in RunsWithId(wfs[w].runId) :
         /\ dbState.automationRuns[i].outputMessageId = wfs[w].out
         /\ dbState.automationRuns[j].outputMessageId = NoId

(***************************************************************************)
(* C28: in the image workflow the upstream calls are exactly upload then   *)
(* send-image, in that order; the echo image message is persisted and      *)
(* published between them; the echo message and the send-image call both   *)
(* name the CDN url the upload produced, never the inbound url.            *)
(***************************************************************************)
ImageWorkflow(w) == wfs[w].flow = "callback" /\ wfs[w].inbound.kind = "image"

Operations(calls) == [i \in DOMAIN calls |-> calls[i].op]

\* The calls of an image workflow are upload, then send-image.
C28_UploadThenSend ==
  \A w \in DOMAIN wfs :
    ImageWorkflow(w) =>
      Operations(wfs[w].calls) \in {<<>>, <<"uploadCdnImage">>,
                                    <<"uploadCdnImage", "sendImage2">>}

\* send-image is called once the save of the echo message is done and the
\* message is published.
C28_EchoBetween ==
  \A w \in DOMAIN wfs :
    /\ ImageWorkflow(w)
    /\ Len(wfs'[w].calls) = Len(wfs[w].calls) + 1
    /\ Last(wfs'[w].calls).op = "sendImage2"
    => /\ wfs[w].pc = "persistMsg" /\ saves[wfs[w].job].stage = "done"
       /\ wfs[w].out # NoId
       /\ \E e \in DOMAIN sse'.events :
            sse'.events[e].event = "message.created" /\ sse'.events[e].messageId = wfs[w].out

\* The echo messages of the image workflows whose upload came back with
\* one of `outcomes`, and their send-image calls, name the url of the
\* upload and not the inbound url.
NamesCdnUrl(outcomes) ==
  \A w \in DOMAIN wfs :
    /\ ImageWorkflow(w) /\ wfs[w].calls # <<>>
    /\ wfs[w].calls[1].outcome \in outcomes
    => /\ \A i \in DOMAIN dbState.messages :
            dbState.messages[i].id = wfs[w].out
              => /\ dbState.messages[i].dataUrl = "cdn"
                 /\ dbState.messages[i].dataUrl # wfs[w].inbound.dataUrl
       /\ \A c \in DOMAIN wfs[w].calls :
            wfs[w].calls[c].op = "sendImage2"
              => /\ wfs[w].calls[c].arg = <<"cdn">>
                 /\ wfs[w].calls[c].arg # <<wfs[w].inbound.dataUrl>>

C28_ImageWorkflow ==
  /\ [](C28_UploadThenSend /\ NamesCdnUrl(UpstreamOutcomes))
  /\ [][C28_EchoBetween]_vars

\* The part of C28 that holds: the order of the calls, the echo between
\* them, and the CDN url after an upload that succeeded.
ImageWorkflowOrder ==
  /\ [](C28_UploadThenSend /\ NamesCdnUrl({"ok"}))
  /\ [][C28_EchoBetween]_vars

\* The upload failed, and the echo message and the send-image call name
\* the inbound url.
EchoOfInboundUrl ==
  \E w \in DOMAIN wfs :
    /\ ImageWorkflow(w) /\ Len(wfs[w].calls) = 2
    /\ wfs[w].calls[1].outcome = "http"
    /\ wfs[w].calls[2].arg = <<wfs[w].inbound.dataUrl>>
    /\ \E i \in DOMAIN dbState.messages :
         /\ dbState.messages[i].id = wfs[w].out
         /\ dbState.messages[i].dataUrl = wfs[w].inbound.dataUrl

(***************************************************************************)
(* C29: with catalog and upstream configured, an image workflow whose      *)
(* inbound dataUrl is not an http(s) url ends with a run of status skipped *)
(* (not failed) with a skip code and outputMessageId null; it makes no     *)
(* upstream call and adds no echo message.                                 *)
(***************************************************************************)
SkipCodes == {"SKIPPED_NO_HTTP_URL", "SKIPPED_EMPTY_BASE64", "SKIPPED_NO_SENDER",
              "SKIPPED_UNSUPPORTED_KIND"}

ImageWithoutHttpUrl(w) ==
  /\ ImageWorkflow(w) /\ wfs[w].inbound.dataUrl # "http"
  /\ config.catalog /\ config.upstream

SkippedRun(run) ==
  run.status = "skipped" /\ run.code \in SkipCodes /\ run.outputMessageId = NoId

\* No call, no echo message of the workflow.
C29_NothingSent ==
  \A w \in DOMAIN wfs :
    ImageWithoutHttpUrl(w) => wfs[w].calls = <<>> /\ wfs[w].out = NoId

\* The steps of the workflow add no message.
C29_NoEcho ==
  \A w \in DOMAIN wfs :
    ImageWithoutHttpUrl(w) /\ wfs'[w] # wfs[w]
      => dbState'.messages = dbState.messages

\* The workflow has ended: its run is a skipped run, and no run of it is a
\* failed one.
C29_EndsSkipped ==
  \A w \in DOMAIN wfs :
    ImageWithoutHttpUrl(w) /\ wfs[w].pc = "done"
      => /\ RunsWithId(wfs[w].runId) # {}
         /\ \A i \in RunsWithId(wfs[w].runId) : SkippedRun(dbState.automationRuns[i])

C29_ImageSkipped ==
  /\ [](C29_NothingSent /\ C29_EndsSkipped)
  /\ [][C29_NoEcho]_vars

\* The part of C29 that holds when a save fails too: from its first step
\* on, the first run of the workflow is the skipped run.
FirstRun(w) ==
  dbState.automationRuns[
    CHOOSE i \in RunsWithId(wfs[w].runId) : \A j \in RunsWithId(wfs[w].runId) : i <= j]

ImageSkippedFirst ==
  /\ [](/\ C29_NothingSent
        /\ \A w \in DOMAIN wfs :
             ImageWithoutHttpUrl(w) /\ wfs[w].pc # "queued"
               => /\ RunsWithId(wfs[w].runId) # {}
                  /\ SkippedRun(FirstRun(w))
                  /\ FirstRun(w).code = "SKIPPED_NO_HTTP_URL")
  /\ [][C29_NoEcho]_vars

\* The save of the skipped run was rejected and the workflow ended with a
\* failed run beside the skipped one.
SkippedThenFailed ==
  \E w \in DOMAIN wfs :
    /\ ImageWithoutHttpUrl(w) /\ wfs[w].pc = "done"
    /\ \E i, j \in RunsWithId(wfs[w].runId) :
         /\ i < j
         /\ dbState.automationRuns[i].status = "skipped"
         /\ dbState.automationRuns[j].status = "failed"

(***************************************************************************)
(* C30: the file workflow picks the relay by the shape of the payload: a   *)
(* base64 data: url is relayed only through sendFileBase64 with the base64 *)
(* text, an http(s) url only through sendFile, and any other payload ends  *)
(* in a skipped run with a skip code and no upstream call; in every case   *)
(* the echo file message is persisted and published before a relay call.   *)
(***************************************************************************)
FileWorkflow(w) ==
  /\ wfs[w].flow = "callback" /\ wfs[w].inbound.kind = "file"
  /\ config.catalog /\ config.upstream

OtherPayload(w) == wfs[w].inbound.dataUrl \notin {"data", "bigdata", "http"}

\* The calls of a file workflow, by the payload.
C30_RelayByShape ==
  \A w \in DOMAIN wfs :
    FileWorkflow(w) =>
      /\ Len(wfs[w].calls) <= 1
      /\ \A c \in DOMAIN wfs[w].calls :
           CASE wfs[w].inbound.dataUrl \in {"data", "bigdata"} ->
                  /\ wfs[w].calls[c].op = "sendFileBase64"
                  /\ wfs[w].calls[c].arg = <<Base64Of(wfs[w].inbound.dataUrl)>>
             [] wfs[w].inbound.dataUrl = "http" ->
                  /\ wfs[w].calls[c].op = "sendFile"
                  /\ wfs[w].calls[c].arg = <<wfs[w].inbound.dataUrl>>
             [] OTHER -> FALSE

EchoPublished(w) ==
  /\ wfs[w].out # NoId
  /\ wfs[w].pc = "persistMsg" /\ saves[wfs[w].job].stage = "done"
  /\ \E i \in DOMAIN dbState.messages :
       /\ dbState.messages[i].id = wfs[w].out
       /\ dbState.messages[i].direction = "outbound"
       /\ dbState.messages[i].kind = "file"
  /\ \E e \in DOMAIN sse'.events :
       sse'.events[e].event = "message.created" /\ sse'.events[e].messageId = wfs[w].out

\* A relay call is issued, or the skipped run is pushed, by a workflow whose
\* echo message is saved and published.
C30_EchoFirst ==
  \A w \in DOMAIN wfs :
    /\ FileWorkflow(w)
    /\ \/ Len(wfs'[w].calls) > Len(wfs[w].calls)
       \/ /\ AppendsRun /\ NewRun.id = wfs'[w].runId /\ NewRun.status = "skipped"
          /\ wfs'[w] # wfs[w]
    => EchoPublished(w)

EchoWasPublished(w) ==
  /\ wfs[w].out # NoId
  /\ \E e \in DOMAIN sse.events :
       sse.events[e].event = "message.created" /\ sse.events[e].messageId = wfs[w].out

\* A workflow with another payload has published its echo message and
\* ended: its runs are skipped runs.
C30_EndsSkipped ==
  \A w \in DOMAIN wfs :
    FileWorkflow(w) /\ OtherPayload(w) /\ wfs[w].pc = "done" /\ EchoWasPublished(w)
      => /\ RunsWithId(wfs[w].runId) # {}
         /\ \A i \in RunsWithId(wfs[w].runId) :
              /\ dbState.automationRuns[i].status = "skipped"
              /\ dbState.automationRuns[i].code \in SkipCodes

C30_FileWorkflow ==
  /\ [](C30_RelayByShape /\ C30_EndsSkipped)
  /\ [][C30_EchoFirst]_vars

\* The part of C30 that holds when a save fails too: the relay by the
\* payload, the echo before it, and a skipped run as the first run of a
\* workflow with another payload once its echo message is published.
FileRelayByShape ==
  /\ [](/\ C30_RelayByShape
        /\ \A w \in DOMAIN wfs :
             FileWorkflow(w) /\ OtherPayload(w) /\ wfs[w].pc = "done"
               /\ EchoWasPublished(w)
               => /\ RunsWithId(wfs[w].runId) # {}
                  /\ FirstRun(w).status = "skipped"
                  /\ FirstRun(w).code \in SkipCodes
                  /\ FirstRun(w).outputMessageId = wfs[w].out)
  /\ [][C30_EchoFirst]_vars

\* The save of the skipped run of a file workflow was rejected and the
\* workflow ended with a failed run beside the skipped one.
FileSkippedThenFailed ==
  \E w \in DOMAIN wfs :
    /\ FileWorkflow(w) /\ OtherPayload(w) /\ wfs[w].pc = "done"
    /\ \E i, j \in RunsWithId(wfs[w].runId) :
         /\ i < j
         /\ dbState.automationRuns[i].code \in SkipCodes
         /\ dbState.automationRuns[j].status = "failed"

(***************************************************************************)
(* C31: persist precedes publish.  An event for an entity is published     *)
(* only after the save that contains the change has completed; exactly one *)
(* message.created is published per newly appended message; when the save  *)
(* fails no event for the change is published.                             *)
(***************************************************************************)
\* The saves awaited by the handlers and workflows that take this step.
EmitterJobs ==
  {reqs[r].job : r \in {q \in DOMAIN reqs : reqs'[q] # reqs[q]}}
  \cup {wfs[w].job : w \in {v \in DOMAIN wfs : wfs'[v] # wfs[v]}}

EventPublished == Len(sse'.events) = Len(sse.events) + 1

\* The document written by a save shows the change the event tells of.
ContainsChange(snap, e) ==
  IF e.event = "conversation.changed"
    THEN \A i \in DOMAIN snap.conversations : snap.conversations[i].id # e.conversationId
    ELSE \E i \in DOMAIN snap.messages : snap.messages[i].id = e.messageId

\* An event is published by a handler whose save is done.
C31_AfterItsSave ==
  EventPublished =>
    \E job \in EmitterJobs \cap DOMAIN saves : saves[job].stage = "done"

\* ... and the document of that save contains the change.
C31_SaveContainsChange ==
  EventPublished =>
    \E job \in EmitterJobs \cap DOMAIN saves :
      saves[job].stage = "done" /\ ContainsChange(saves[job].snap, Last(sse'.events))

\* One message.created for the message of a request that was answered 200
\* and stored one, none for a request whose save failed, and never two.
C31_OnePerMessage ==
  /\ \A e, f \in DOMAIN sse.events :
       /\ sse.events[e].event = "message.created" /\ sse.events[f].event = "message.created"
       /\ sse.events[e].messageId = sse.events[f].messageId
       => e = f
  /\ \A r \in DOMAIN reqs :
       reqs[r].msg.id # NoId /\ reqs[r].pc = "done" =>
         IF reqs[r].status = 200
           THEN Published("message.created", reqs[r].msg.id) # {}
           ELSE Published("message.created", reqs[r].msg.id) = {}

C31_PersistPrecedesPublish ==
  /\ []C31_OnePerMessage
  /\ [][C31_AfterItsSave /\ C31_SaveContainsChange]_vars

\* The part of C31 that holds: the save of the publisher is done, one event
\* per stored message, none after a failed save.
PublishAfterSave ==
  /\ []C31_OnePerMessage
  /\ [][C31_AfterItsSave]_vars

\* message.created is published for a message that no document written so
\* far contains.
PublishedUnsaved ==
  \E e \in DOMAIN sse.events :
    /\ sse.events[e].event = "message.created"
    /\ \A i \in DOMAIN saves :
         saves[i].stage = "done" =>
           \A k \in DOMAIN saves[i].snap.messages :
             saves[i].snap.messages[k].id # sse.events[e].messageId

(***************************************************************************)
(* C32: every document the server writes survives a restart: loadOrInit of *)
(* db.json returns the conversations, messages (with raw), runs, dedupe    *)
(* keys and automationEnabled that were saved, never the empty default and *)
(* never a snapshot with fields dropped.                                   *)
(***************************************************************************)
Written(file) == file.exists /\ file.complete

C32_SurvivesRestart ==
  Written(disk.canon) => loadOrInit(disk.canon, now) = disk.canon.json

\* The part of C32 that holds: a document without a human_send run and
\* without a message carrying raw is read back as it was written.
PlainDocument(json) ==
  /\ \A i \in DOMAIN json.automationRuns : json.automationRuns[i].trigger # "human_send"
  /\ \A i \in DOMAIN json.messages : json.messages[i].raw = ""

PlainDocumentSurvives ==
  Written(disk.canon) /\ PlainDocument(disk.canon.json)
    => loadOrInit(disk.canon, now) = disk.canon.json

\* db.json holds a human_send run and messages; loadOrInit answers the
\* empty default.
EmptyAfterRestart ==
  /\ Written(disk.canon)
  /\ \E i \in DOMAIN disk.canon.json.automationRuns :
       disk.canon.json.automationRuns[i].trigger = "human_send"
  /\ disk.canon.json.messages # <<>>
  /\ loadOrInit(disk.canon, now) = createEmptyDb(now)

\* db.json holds a webhook message with raw; loadOrInit answers the
\* message without it.
RawDropped ==
  /\ Written(disk.canon)
  /\ \E i \in DOMAIN disk.canon.json.messages :
       /\ disk.canon.json.messages[i].raw # ""
       /\ i \in DOMAIN loadOrInit(disk.canon, now).messages
       /\ loadOrInit(disk.canon, now).messages[i].raw = ""

SavedPlainDocument ==
  /\ Written(disk.canon) /\ PlainDocument(disk.canon.json)
  /\ disk.canon.json.messages # <<>>

(***************************************************************************)
(* C33: a save whose write or rename fails rejects only its own caller:    *)
(* every save called afterwards still does its own write and rename and    *)
(* resolves.                                                               *)
(***************************************************************************)
\* The saves this step rejects.
NewlyFailed ==
  {j \in DOMAIN saves' :
     saves'[j].stage = "failed" /\ (j \in DOMAIN saves => saves[j].stage # "failed")}

\* A save is rejected only by the failure of its own write or rename.
C33_OwnFailure ==
  \A j \in NewlyFailed : j \in DOMAIN saves /\ saves[j].stage \in {"writing", "renaming"}

C33_OnlyItsCaller == [][C33_OwnFailure]_vars

\* The part of C33 that holds: the first rejected save of the queue is one
\* whose own write or rename failed, and the saves before it are done.
FirstFailureIsOwn ==
  [][\A j \in NewlyFailed :
       (\A i \in 1..(j - 1) : saves'[i].stage # "failed")
         => /\ j \in DOMAIN saves /\ saves[j].stage \in {"writing", "renaming"}
            /\ \A i \in 1..(j - 1) : saves[i].stage = "done"]_vars

\* The write of one save failed, and a later save of another request is
\* rejected too: both callers answered 500 and db.json does not hold the
\* document of the later one.
RejectedUnwritten ==
  \E r, q \in DOMAIN reqs :
    /\ reqs[r].pc = "done" /\ reqs[r].status = 500
    /\ reqs[q].pc = "done" /\ reqs[q].status = 500
    /\ reqs[r].job \in DOMAIN saves /\ reqs[q].job \in DOMAIN saves
    /\ reqs[r].job < reqs[q].job
    /\ \A i \in DOMAIN saves : i < reqs[r].job => saves[i].stage = "done"
    /\ disk.canon.json # saves[reqs[q].job].snap

(***************************************************************************)
(* C34: hydrate changes only the targeted message.  However the request,   *)
(* suspended on its download, interleaves with handlers that append        *)
(* messages or delete conversations, its write changes the message with    *)
(* the requested id and no other; every other message stays, unchanged,    *)
(* and message ids are unique.                                             *)
(***************************************************************************)
\* Request r writes the hydrated message in this step.
HydrateWrites(r) ==
  reqs[r].route = "hydrate" /\ reqs[r].pc = "fetch" /\ reqs'[r].pc = "persist"

UniqueIds(ms) == \A i, j \in DOMAIN ms : ms[i].id = ms[j].id => i = j

C34_WriteOnlyTarget ==
  \A r \in DOMAIN reqs :
    HydrateWrites(r) =>
      /\ Len(dbState'.messages) = Len(dbState.messages)
      /\ \A i \in DOMAIN dbState.messages :
           \/ dbState'.messages[i] = dbState.messages[i]
           \/ /\ dbState.messages[i].id = reqs[r].in.messageId
              /\ dbState'.messages[i].id = reqs[r].in.messageId
      /\ UniqueIds(dbState'.messages)

C34_HydrateOnlyTarget == [][C34_WriteOnlyTarget]_vars

\* The part of C34 that holds: a write that finds the message where it was
\* before the download changes that message only.
HydrateInPlace ==
  [][\A r \in DOMAIN reqs :
       /\ HydrateWrites(r)
       /\ reqs[r].idx \in DOMAIN dbState.messages
       /\ dbState.messages[reqs[r].idx].id = reqs[r].in.messageId
       => C34_WriteOnlyTarget]_vars

\* A message delivered after the last deletion is gone: the write of a
\* hydrate request took its place.
HydrateOverwrote ==
  \E r, q \in DOMAIN reqs :
    /\ reqs[r].route = "hydrate" /\ reqs[r].pc \in {"persist", "done"} /\ reqs[r].idx # 0
    /\ reqs[q].route = "callback" /\ reqs[q].msg.id # NoId
    /\ reqs[q].msg.id # reqs[r].in.messageId
    /\ \A d \in DOMAIN reqs : reqs[d].route = "delete" => reqs[d].job < reqs[q].job
    /\ \A i \in DOMAIN dbState.messages : dbState.messages[i].id # reqs[q].msg.id

(***************************************************************************)
(* C35: if no save fails, then once every handler and workflow has         *)
(* finished and the write queue has drained, db.json equals the in-memory  *)
(* snapshot: every accepted mutation is eventually on disk, and the last   *)
(* write is the one of the latest snapshot.                                *)
(***************************************************************************)
HandlersFinished ==
  /\ \A r \in DOMAIN reqs : reqs[r].pc = "done"
  /\ \A w \in DOMAIN wfs : wfs[w].pc = "done"

QueueDrained == \A i \in DOMAIN saves : saves[i].stage = "done"

OnDisk == disk.canon = JsonStringify(dbState)

\* Everything has finished, something was saved, and nothing failed:
\* db.json is the snapshot, written by the last save.
C35_DrainedIsOnDisk ==
  HandlersFinished /\ QueueDrained /\ saves # <<>>
    => OnDisk /\ Last(saves).snap = dbState /\ disk.tmp = AbsentFile

\* Whatever was accepted, the server gets to such a state.
C35_EventuallyOnDisk ==
  /\ []C35_DrainedIsOnDisk
  /\ []<>(HandlersFinished /\ QueueDrained /\ (saves # <<>> => OnDisk))

\* Every kind of mutation is on disk: a message, its conversation and
\* dedupe key, a run, and the switch.
C35_Witness ==
  /\ HandlersFinished /\ QueueDrained /\ OnDisk
  /\ disk.canon.json.messages # <<>>
  /\ disk.canon.json.conversations # <<>>
  /\ disk.canon.json.automationRuns # <<>>
  /\ DOMAIN disk.canon.json.webhookDedupeKeys # {}
  /\ \E r \in DOMAIN reqs : reqs[r].route = "automation" /\ reqs[r].status = 200

(***************************************************************************)
(* C36: every mutator replaces the in-memory snapshot and never mutates it *)
(* in place, so a snapshot handed to save is not changed by later          *)
(* mutations: what a save writes is the snapshot as it was when save was   *)
(* called, whatever other handlers do while the save waits in the queue.   *)
(***************************************************************************)
\* The document a waiting save will write stays what it is.
C36_QueuedSnapshotKept ==
  \A i \in DOMAIN saves :
    saves[i].stage = "queued" => saves'[i].snap = saves[i].snap

C36_CopyOnWrite == [][C36_QueuedSnapshotKept]_vars

\* The part of C36 that holds: a document is read once, when its write
\* begins, and the object keeps its own updatedAt while it waits.
WrittenSnapshotKept ==
  [][\A i \in DOMAIN saves :
       /\ saves[i].stage # "queued" => saves'[i].snap = saves[i].snap
       /\ saves'[i].snap.updatedAt = saves[i].snap.updatedAt]_vars

\* The document written for the save of one request holds the message
\* another request stored after that save was called.
WroteLaterMessage ==
  \E r, q \in DOMAIN reqs :
    /\ reqs[r].job \in DOMAIN saves /\ reqs[q].job \in DOMAIN saves
    /\ reqs[r].job < reqs[q].job
    /\ reqs[q].msg.id # NoId
    /\ saves[reqs[r].job].stage = "done"
    /\ \E k \in DOMAIN saves[reqs[r].job].snap.messages :
         saves[reqs[r].job].snap.messages[k].id = reqs[q].msg.id

(***************************************************************************)
(* C37: the session lifecycle.  A session id authorizes /api requests from *)
(* the login that issued it until a logout carrying it; after that logout  *)
(* it never authorizes again, while other sessions and the bearer token    *)
(* stay valid; an id no login issued never authorizes.                     *)
(***************************************************************************)
\* The ids login has handed out (Login takes the next id), and the ids a
\* logout has carried.
Issued == 1..(nextId - 1)

LoggedOut == {reqs[r].in.cookie : r \in {q \in DOMAIN reqs : reqs[q].route = "logout"}}

\* A successful login issues one id, which is new.
C37_LoginIssues ==
  IsArrival /\ Arrival.route = "login" /\ Arrival.status = 200
    => /\ Arrival.in.password = loginPassword
       /\ nextId \notin Issued \cup LoggedOut \cup {ForgedSid, NoId}
       /\ sessions' = sessions \cup {nextId}
       /\ nextId' = nextId + 1

\* A logout ends the session it carries and no other.
C37_LogoutEndsOne ==
  IsArrival /\ Arrival.route = "logout"
    => sessions' = sessions \ {Arrival.in.cookie}

\* A request with a cookie and nothing else passes the gate exactly when
\* the cookie was issued and not logged out; the bearer token passes always.
C37_CookieAuthorizes ==
  IsArrival /\ GatedApi(Arrival)
    => /\ Arrival.in.authorization = Bearer(BffApiToken) => Arrival.status # 401
       /\ Arrival.in.authorization = "" /\ Arrival.in.token = ""
            => (Arrival.status # 401
                  <=> Arrival.in.cookie \in Issued \ LoggedOut)

C37_SessionLifecycle ==
  /\ [](sessions = Issued \ LoggedOut)
  /\ [][C37_LoginIssues /\ C37_LogoutEndsOne /\ C37_CookieAuthorizes]_vars

\* A session was issued and logged out; a request with
\* its cookie was answered 401.
C37_Witness ==
  /\ \E r \in DOMAIN reqs :
       /\ GatedApi(reqs[r]) /\ reqs[r].in.cookie \in LoggedOut
       /\ reqs[r].in.authorization = ""
       /\ Rejected(reqs[r], 401, "UNAUTHORIZED")
  /\ LoggedOut # {}

(***************************************************************************)
(* C38: DELETE /api/conversations/:id of an existing conversation removes  *)
(* that conversation and every message of it, leaves every other           *)
(* conversation and message unchanged, and publishes conversation.changed  *)
(* with action deleted; for an id that does not exist it answers 404,      *)
(* changes nothing, saves nothing and publishes nothing.                   *)
(***************************************************************************)
Others(seq, id, IdOf(_)) == SelectSeq(seq, LAMBDA x : IdOf(x) # id)

ConversationIdOf(m) == m.conversationId

OwnId(c) == c.id

\* The step of the handler up to its save.
C38_Removes ==
  IsArrival /\ Arrival.route = "delete" /\ HasConversation(dbState, Arrival.in.conversationId)
    => /\ Arrival.status # 404
       /\ dbState'.conversations = Others(dbState.conversations, Arrival.in.conversationId, OwnId)
       /\ dbState'.messages = Others(dbState.messages, Arrival.in.conversationId, ConversationIdOf)
       /\ Len(saves') = Len(saves) + 1
       /\ sse' = sse

C38_NotFound ==
  IsArrival /\ Arrival.route = "delete" /\ ~HasConversation(dbState, Arrival.in.conversationId)
    => Rejected(Arrival, 404, "NOT_FOUND") /\ UNCHANGED ServerState

\* The step after the save: the event, once, when the save is done.
C38_Publishes ==
  \A r \in DOMAIN reqs :
    reqs[r].route = "delete" /\ reqs[r].pc = "persist" /\ reqs'[r].pc = "done"
      => IF saves[reqs[r].job].stage = "done"
           THEN /\ reqs'[r].status = 200
                /\ Len(sse'.events) = Len(sse.events) + 1
                /\ Last(sse'.events).event = "conversation.changed"
                /\ Last(sse'.events).conversationId = reqs[r].in.conversationId
                /\ Last(sse'.events).action = "deleted"
           ELSE reqs'[r].status = 500 /\ sse' = sse

C38_DeleteFrame == [][C38_Removes /\ C38_NotFound /\ C38_Publishes]_vars

\* The conversation of p1 and its message are gone, the conversation of p2
\* and its message are there, and the event is published.
C38_Witness ==
  /\ \E r \in DOMAIN reqs : reqs[r].route = "delete" /\ reqs[r].status = 200
  /\ \E q \in DOMAIN reqs :
       /\ reqs[q].route = "callback" /\ reqs[q].msg.id # NoId
       /\ reqs[q].msg.conversationId = WkConversationId(WId, "u", "p1")
  /\ dbState.conversations = FrameStore.db.conversations
  /\ dbState.messages = FrameStore.db.messages
  /\ \E e \in DOMAIN sse.events : sse.events[e].action = "deleted"

(***************************************************************************)
(* C39: timestamp normalization of a callback delivery.  A finite numeric  *)
(* provider timestamp t (a number, or a string parsed as a number) below   *)
(* 10^12 is stored as sentAt = trunc(t * 1000), one of 10^12 or more as    *)
(* sentAt = trunc(t), and a missing or non-finite one as the server's      *)
(* current time.                                                           *)
(***************************************************************************)
\* The handler stores the message of request r in this step.
StoresDelivery(r) ==
  reqs[r].route = "callback" /\ reqs[r].pc = "body" /\ reqs'[r].pc = "persist"

IsFinite(t) == t.type = "number" /\ t.kind = "finite"

BelowTera(t) == t.neg \/ t.hi < Limb

\* n is a whole number, and n = trunc(t).
IsTruncOf(n, t) ==
  IsFinite(n) /\ n.frac = 0 /\ n.neg = t.neg /\ n.hi = t.hi /\ n.lo = t.lo

\* n is a whole number, and n = trunc(t * 1000): n div 1000 is the whole
\* part of t and n mod 1000 its first three decimals.
IsTruncOfThousandfold(n, t) ==
  /\ IsFinite(n) /\ n.frac = 0 /\ n.neg = t.neg
  /\ n.hi \div 1000 = t.hi
  /\ (n.hi % 1000) * 1000 + n.lo \div 1000 = t.lo
  /\ n.lo % 1000 = t.frac \div 1000

C39_SentAt ==
  \A r \in DOMAIN reqs :
    StoresDelivery(r) =>
      LET t == TsNum(reqs[r].in.timestamp)
          sentAt == Last(dbState'.messages).sentAt
      IN /\ Last(dbState'.messages) = reqs'[r].msg
         /\ IF ~IsFinite(t) THEN sentAt = now
            ELSE IF BelowTera(t) THEN IsTruncOfThousandfold(sentAt, t)
            ELSE IsTruncOf(sentAt, t)

C39_TimestampNormalized == [][C39_SentAt]_vars

\* 1700000000.25 seconds, sent as a string, is stored as 1700000000250,
\* and 10^12 is stored as it is.
C39_Witness ==
  /\ \E r \in DOMAIN reqs :
       /\ reqs[r].in.timestamp = StringOf("1700000000.25")
       /\ reqs[r].msg.id # NoId
       /\ reqs[r].msg.sentAt.hi = 1700000 /\ reqs[r].msg.sentAt.lo = 250
       /\ \E i \in DOMAIN dbState.messages : dbState.messages[i].id = reqs[r].msg.id
  /\ \E r \in DOMAIN reqs :
       /\ reqs[r].in.timestamp = Finite(FALSE, Limb, 0, 0)
       /\ reqs[r].msg.id # NoId
       /\ reqs[r].msg.sentAt.hi = Limb /\ reqs[r].msg.sentAt.lo = 0

(***************************************************************************)
(* C40: the update channels of the UI's remote-chats hook.  When the SSE   *)
(* connection reports an error the EventSource is closed and a polling     *)
(* timer starts that calls refresh every 5000 ms; when an SSE connection   *)
(* opens, polling is stopped; when the client becomes null or the hook     *)
(* unmounts both are stopped.  So an open EventSource and a polling timer  *)
(* are never active together, and while a client is set at least one of    *)
(* the two channels is eventually active.                                  *)
(***************************************************************************)
\* EventSources not closed, and intervals not cleared.
LiveEs(h) == {e \in DOMAIN h.es : h.es[e] # "closed"}

LiveTimers(h) == {t \in DOMAIN h.timers : ~h.timers[t].cleared}

\* After es.onerror no EventSource is left and one new timer runs.
C40_OnError ==
  hook'.ran = "onerror" =>
    /\ LiveEs(hook') = {} /\ hook'.sseRef = {}
    /\ \E t \in DOMAIN hook'.timers \ DOMAIN hook.timers :
         /\ LiveTimers(hook') = {t} /\ hook'.pollingRef = {t}
         /\ hook'.timers[t].started = hook.clock

\* After es.onopen no timer runs.
C40_OnOpen ==
  hook'.ran = "onopen" => LiveTimers(hook') = {} /\ hook'.pollingRef = {}

\* After a render without client, and after the unmount, nothing is left.
C40_OnStop ==
  (hook'.ran \in {"effect", "cleanup"} /\ (~hook'.client.set \/ hook'.phase = "unmounted"))
    => LiveEs(hook') = {} /\ LiveTimers(hook') = {}

\* A timer has called refresh at every multiple of 5000 ms since its start
\* that has passed, and at no other time.
C40_Every5000 ==
  \A t \in DOMAIN hook.timers :
    /\ \A at \in PollsOf(hook, t) :
         \E k \in 1..MaxQuanta : at = hook.timers[t].started + k * 5000 /\ at <= hook.clock
    /\ t \in LiveTimers(hook) =>
         \A k \in 1..MaxQuanta :
           hook.timers[t].started + k * 5000 < hook.clock
             => hook.timers[t].started + k * 5000 \in PollsOf(hook, t)

\* No EventSource, open or connecting, lives beside a polling timer.
C40_Exclusive == LiveEs(hook) = {} \/ LiveTimers(hook) = {}

ClientSet == hook.phase = "mounted" /\ hook.client.set

ChannelActive ==
  \/ \E e \in DOMAIN hook.es : hook.es[e] = "open"
  \/ LiveTimers(hook) # {}

C40_EventuallyActive == [](ClientSet => <>(ChannelActive \/ ~ClientSet))

C40_UpdateChannels ==
  /\ [][C40_OnError /\ C40_OnOpen /\ C40_OnStop]_vars
  /\ [](C40_Exclusive /\ C40_Every5000)
  /\ C40_EventuallyActive

\* Everything of C40 holds for a client whose connectionInfo has a baseUrl
\* and a token.
Configured == ClientSet /\ hook.client.baseUrl /\ hook.client.token

ChannelsWhenConfigured ==
  /\ [][C40_OnStop /\ C40_OnOpen /\ C40_OnError]_vars
  /\ [](C40_Every5000 /\ C40_Exclusive)
  /\ [](Configured => <>(ChannelActive \/ ~Configured))

\* An EventSource failed, was closed, and the timer started then has called
\* refresh 5000 ms later.
PollingAfterError ==
  /\ Configured /\ hook.sseState = "error"
  /\ hook.es # <<>> /\ LiveEs(hook) = {}
  /\ \E t \in LiveTimers(hook) : hook.timers[t].started + 5000 \in PollsOf(hook, t)

\* A client is set, storage holds no token, and the hook has neither an
\* EventSource nor a timer.
ClientWithoutChannel ==
  /\ ClientSet /\ ~hook.client.token
  /\ hook.ran = "effect"
  /\ LiveEs(hook) = {} /\ LiveTimers(hook) = {}

====
